---------------------------- MODULE Spec2Model ----------------------------
(***************************************************************************)
(* Model of the capture engine of eve_overview_pro/ui/main_tab.py:         *)
(* WindowManager (capture timer, preview registry, pending requests),      *)
(* WindowPreviewWidget (last frame, alert flash state), the part of        *)
(* MainTab that drives them, and the two collaborators the engine talks    *)
(* to (capture system, alert detector) at their interface.                 *)
(***************************************************************************)
EXTENDS Integers, Sequences, FiniteSets, TLC

(***************************************************************************)
(* Bounds of the exploration and constants of the program.                 *)
(***************************************************************************)
\* Requests the capture system accepts before capture_window_async raises.
MaxRid == 2
\* set_refresh_rate is tried with every fps from FpsBelow under the smallest
\* rate to FpsAbove over the largest one.
FpsBelow == 3
FpsAbove == 3
\* File changes that may pile up before config_changed is emitted.
MaxBurst == 2

\* Mutant of DefaultRate: the manager starts out at 60 FPS.
DefaultRateDoubled == 30 + 30

DefaultRate == 30
MinRate == 1
MaxRate == 60
MsPerSecond == 1000
FlashTicks == 30
FlashPeriodMs == 100
\* current_pixmap = None, and the image slot of a result reporting an error.
NoImage == 0
\* zoom_factor = 0.3, in percent.
DefaultZoom == 30
\* ConfigWatcher: default debounce_ms, and the poll timer's period.
DebounceMs == 500
PollMs == 2000
\* The step in which the model lets the debounce timer's time pass.
DebounceStepMs == DebounceMs \div 5

WindowIds == {"w1", "w2"}
Levels == {"LOW", "MEDIUM", "HIGH"}
None == "None"

VARIABLES
    refresh_rate,        \* WindowManager.refresh_rate
    timer_active,        \* capture_timer.isActive()
    timer_interval,      \* capture_timer.interval(), ms
    preview_frames,      \* WindowManager.preview_frames: window_id -> widget
    frame_order,         \* insertion order of the preview_frames dict
    pending_requests,    \* WindowManager.pending_requests: request_id -> window_id
    callbacks,           \* alert detector: window ids holding a callback
    backend_requests,    \* capture system: accepted, not yet completed requests
    results,             \* capture system: completed results not yet polled
    next_rid,            \* capture system: next request id it hands out
    thumbnails_visible,  \* MainTab._thumbnails_visible
    faults,              \* what the collaborators may do wrong in this run
    hotkey_manager,      \* HotkeyManager: its dictionaries and held modifiers
    config_watcher,      \* ConfigWatcher: running flag, observer and timers
    tick,                \* _capture_cycle: where the running handler stands
    rate_was_set,        \* history: set_refresh_rate has been called
    last                 \* history: the last operation and the calls it made

vars == <<refresh_rate, timer_active, timer_interval, preview_frames,
          frame_order, pending_requests, callbacks, backend_requests,
          results, next_rid, thumbnails_visible, faults, hotkey_manager,
          config_watcher, tick, rate_was_set, last>>

schedVars == <<refresh_rate, timer_active, timer_interval>>
registryVars == <<preview_frames, frame_order, callbacks>>
backendVars == <<backend_requests, results, next_rid>>

(***************************************************************************)
(* Helpers.                                                                *)
(***************************************************************************)
Min(a, b) == IF a < b THEN a ELSE b
Max(a, b) == IF a > b THEN a ELSE b

SeqToSet(s) == {s[i] : i \in 1..Len(s)}

\* The record every operation leaves in `last`; an operation overrides the
\* fields it touches.
BaseLast(op) ==
    [op |-> op, id |-> "-", fps |-> 0, ret |-> None, raised |-> FALSE,
     was_active |-> FALSE, timer_calls |-> <<>>,
     registered |-> <<>>, unregistered |-> <<>>,
     submits |-> <<>>, polls |-> 0, drain |-> <<>>, before |-> <<>>,
     key |-> "-", combo |-> <<>>, listener_restarts |-> 0,
     callbacks_called |-> <<>>, calls |-> <<>>, stale |-> {}]

(***************************************************************************)
(* WindowManager: the capture timer.                                       *)
(***************************************************************************)
\* Mutant of Interval: the quotient rounded to the nearest millisecond.
IntervalRounded(rate) == (MsPerSecond + rate \div 2) \div rate

\* interval = 1000 // self.refresh_rate
Interval(rate) == MsPerSecond \div rate

\* Mutant of ClampRate: the upper limit forgotten.
ClampRateNoCeiling(fps) == Max(MinRate, fps)

\* self.refresh_rate = max(1, min(60, fps))
ClampRate(fps) == Max(MinRate, Min(MaxRate, fps))

start_capture_loop ==
    /\ timer_active' = TRUE
    /\ timer_interval' = Interval(refresh_rate)
    /\ last' = [BaseLast("start_capture_loop") EXCEPT !.timer_calls = <<"start">>]
    /\ UNCHANGED <<refresh_rate, registryVars, pending_requests, backendVars,
                   thumbnails_visible, rate_was_set>>
    /\ UNCHANGED <<faults, hotkey_manager, config_watcher, tick>>

\* Mutant of stop_capture_loop: stopping also forgets the pending requests.
stop_capture_loop_clears_pending ==
    /\ timer_active' = FALSE
    /\ pending_requests' = <<>>
    /\ last' = [BaseLast("stop_capture_loop") EXCEPT
                  !.was_active = timer_active, !.timer_calls = <<"stop">>]
    /\ UNCHANGED <<refresh_rate, timer_interval, registryVars,
                   backendVars, thumbnails_visible, rate_was_set>>
    /\ UNCHANGED <<faults, hotkey_manager, config_watcher, tick>>

stop_capture_loop ==
    /\ timer_active' = FALSE
    /\ last' = [BaseLast("stop_capture_loop") EXCEPT
                  !.was_active = timer_active, !.timer_calls = <<"stop">>]
    /\ UNCHANGED <<refresh_rate, timer_interval, registryVars, pending_requests,
                   backendVars, thumbnails_visible, rate_was_set>>
    /\ UNCHANGED <<faults, hotkey_manager, config_watcher, tick>>

\* Mutant of set_refresh_rate: the running timer is not restarted.
set_refresh_rate_no_restart(fps) ==
    /\ refresh_rate' = ClampRate(fps)
    /\ rate_was_set' = TRUE
    /\ last' = [BaseLast("set_refresh_rate") EXCEPT
                  !.fps = fps, !.was_active = timer_active]
    /\ UNCHANGED <<timer_active, timer_interval, registryVars, pending_requests,
                   backendVars, thumbnails_visible>>
    /\ UNCHANGED <<faults, hotkey_manager, config_watcher, tick>>

set_refresh_rate(fps) ==
    /\ refresh_rate' = ClampRate(fps)
    /\ IF timer_active
       THEN /\ timer_active' = TRUE
            /\ timer_interval' = Interval(refresh_rate')
       ELSE UNCHANGED <<timer_active, timer_interval>>
    /\ rate_was_set' = TRUE
    /\ last' = [BaseLast("set_refresh_rate") EXCEPT
                  !.fps = fps,
                  !.was_active = timer_active,
                  !.timer_calls = IF timer_active THEN <<"stop", "start">> ELSE <<>>]
    /\ UNCHANGED <<registryVars, pending_requests, backendVars, thumbnails_visible>>
    /\ UNCHANGED <<faults, hotkey_manager, config_watcher, tick>>

(***************************************************************************)
(* WindowPreviewWidget.                                                    *)
(***************************************************************************)
\* The state __init__ leaves; isVisible() is true once MainTab has put the
\* widget into its shown layout.
NewWidget ==
    [current_pixmap |-> NoImage, alert_level |-> None, alert_flash_counter |-> 0,
     flash_active |-> FALSE, flash_remaining_ms |-> 0, alert_age_ms |-> 0,
     visible |-> TRUE, zoom_factor |-> DefaultZoom]

\* update_frame catches everything it raises.  With no image pil_to_qimage
\* raises before current_pixmap is assigned; with an image the conversion
\* may fail before the assignment, or the scaling/painting after it, in the
\* runs where such failures are let in.
UpdateOutcomes ==
    {"ok"} \cup (IF "convert" \in faults THEN {"convert_fails"} ELSE {})
           \cup (IF "paint" \in faults THEN {"paint_fails"} ELSE {})

\* Mutant of update_frame: the frame of the request submitted last is kept.
update_frame_keeps_newest_request(w, image, outcome) ==
    IF image = NoImage \/ outcome = "convert_fails"
    THEN w
    ELSE [w EXCEPT !.current_pixmap = Max(@, image)]

\* Mutant of update_frame: a missing image blanks the stored pixmap.
update_frame_blanks_on_error(w, image, outcome) ==
    IF outcome = "convert_fails" /\ image # NoImage
    THEN w
    ELSE [w EXCEPT !.current_pixmap = image]

update_frame(w, image, outcome) ==
    IF image = NoImage \/ outcome = "convert_fails"
    THEN w
    ELSE [w EXCEPT !.current_pixmap = image]

\* Whether update_frame logs an exception of its own for this image.
UpdateCaught(image, outcome) ==
    IF image = NoImage \/ outcome # "ok" THEN {"update_frame"} ELSE {}

\* Mutant of set_alert: an alert that is still flashing keeps its time left.
set_alert_no_restart(w, level) ==
    [w EXCEPT !.alert_level = level,
              !.alert_flash_counter = IF w.flash_active THEN @ ELSE FlashTicks,
              !.flash_active = TRUE,
              !.flash_remaining_ms = IF w.flash_active THEN @ ELSE FlashPeriodMs,
              !.alert_age_ms = 0]

\* flash_remaining_ms is the time to the flash timer's next timeout: a timer
\* that is already active is not started again and keeps its phase.
\* alert_age_ms is the time passed since this call.
set_alert(w, level) ==
    [w EXCEPT !.alert_level = level,
              !.alert_flash_counter = FlashTicks,
              !.flash_active = TRUE,
              !.flash_remaining_ms = IF w.flash_active THEN @ ELSE FlashPeriodMs,
              !.alert_age_ms = 0]

\* The alert a widget shows: its level, the flashes left, the flash timer.
AlertOf(w) == <<w.alert_level, w.alert_flash_counter, w.flash_active>>

(***************************************************************************)
(* WindowManager: the preview registry.                                    *)
(***************************************************************************)
Registered == DOMAIN preview_frames

\* The requests still pending for `id`: when `id` is not registered they were
\* all submitted for a window that has been removed since.
StaleRequests(id) ==
    {r \in DOMAIN pending_requests : pending_requests[r] = id}

get_active_window_count_with_pending ==
    Cardinality(DOMAIN preview_frames) + Cardinality(DOMAIN pending_requests)

get_active_window_count == Cardinality(DOMAIN preview_frames)

WithFrame(frames, id, w) ==
    [x \in (DOMAIN frames) \cup {id} |-> IF x = id THEN w ELSE frames[x]]

WithoutKey(f, k) == [x \in (DOMAIN f) \ {k} |-> f[x]]

\* Mutant of add_window: no membership test, an existing widget is replaced
\* and its callback registered again.
add_window_unguarded(id) ==
    /\ preview_frames' = WithFrame(preview_frames, id, NewWidget)
    /\ frame_order' = IF id \in Registered THEN frame_order ELSE Append(frame_order, id)
    /\ callbacks' = callbacks \cup {id}
    /\ last' = [BaseLast("add_window") EXCEPT
                  !.id = id, !.ret = id, !.registered = <<id>>]
    /\ UNCHANGED <<schedVars, pending_requests, backendVars, thumbnails_visible,
                   rate_was_set>>
    /\ UNCHANGED <<faults, hotkey_manager, config_watcher, tick>>

\* Mutant of add_window: the alert callback is not registered.
add_window_no_callback(id) ==
    /\ IF id \in Registered
       THEN /\ last' = [BaseLast("add_window") EXCEPT !.id = id, !.ret = None]
            /\ UNCHANGED registryVars
       ELSE /\ preview_frames' = WithFrame(preview_frames, id, NewWidget)
            /\ frame_order' = Append(frame_order, id)
            /\ callbacks' = callbacks
            /\ last' = [BaseLast("add_window") EXCEPT !.id = id, !.ret = id]
    /\ UNCHANGED <<schedVars, pending_requests, backendVars, thumbnails_visible,
                   rate_was_set>>
    /\ UNCHANGED <<faults, hotkey_manager, config_watcher, tick>>

add_window(id) ==
    /\ IF id \in Registered
       THEN /\ last' = [BaseLast("add_window") EXCEPT !.id = id, !.ret = None]
            /\ UNCHANGED registryVars
       ELSE /\ preview_frames' = WithFrame(preview_frames, id, NewWidget)
            /\ frame_order' = Append(frame_order, id)
            /\ callbacks' = callbacks \cup {id}
            /\ last' = [BaseLast("add_window") EXCEPT
                          !.id = id, !.ret = id, !.registered = <<id>>,
                          !.stale = StaleRequests(id)]
    /\ UNCHANGED <<schedVars, pending_requests, backendVars, thumbnails_visible,
                   rate_was_set>>
    /\ UNCHANGED <<faults, hotkey_manager, config_watcher, tick>>

\* Mutant of remove_window: no membership test, so an unknown id is
\* unregistered and the pop raises KeyError.
remove_window_unguarded(id) ==
    /\ callbacks' = callbacks \ {id}
    /\ preview_frames' = WithoutKey(preview_frames, id)
    /\ frame_order' = SelectSeq(frame_order, LAMBDA x : x # id)
    /\ last' = [BaseLast("remove_window") EXCEPT
                  !.id = id, !.unregistered = <<id>>, !.raised = id \notin Registered]
    /\ UNCHANGED <<schedVars, pending_requests, backendVars, thumbnails_visible,
                   rate_was_set>>
    /\ UNCHANGED <<faults, hotkey_manager, config_watcher, tick>>

\* Mutant of remove_window: the pending requests of the window are dropped
\* with it.
remove_window_purges_pending(id) ==
    /\ IF id \in Registered
       THEN /\ callbacks' = callbacks \ {id}
            /\ preview_frames' = WithoutKey(preview_frames, id)
            /\ frame_order' = SelectSeq(frame_order, LAMBDA x : x # id)
            /\ pending_requests' =
                 [r \in {x \in DOMAIN pending_requests : pending_requests[x] # id}
                    |-> pending_requests[r]]
            /\ last' = [BaseLast("remove_window") EXCEPT
                          !.id = id, !.unregistered = <<id>>]
       ELSE /\ last' = [BaseLast("remove_window") EXCEPT !.id = id]
            /\ UNCHANGED <<registryVars, pending_requests>>
    /\ UNCHANGED <<schedVars, backendVars, thumbnails_visible, rate_was_set>>
    /\ UNCHANGED <<faults, hotkey_manager, config_watcher, tick>>

\* Mutant of remove_window: the alert callback stays registered.
remove_window_keeps_callback(id) ==
    /\ IF id \in Registered
       THEN /\ callbacks' = callbacks
            /\ preview_frames' = WithoutKey(preview_frames, id)
            /\ frame_order' = SelectSeq(frame_order, LAMBDA x : x # id)
            /\ last' = [BaseLast("remove_window") EXCEPT !.id = id]
       ELSE /\ last' = [BaseLast("remove_window") EXCEPT !.id = id]
            /\ UNCHANGED registryVars
    /\ UNCHANGED <<schedVars, pending_requests, backendVars, thumbnails_visible,
                   rate_was_set>>
    /\ UNCHANGED <<faults, hotkey_manager, config_watcher, tick>>

remove_window(id) ==
    /\ IF id \in Registered
       THEN /\ callbacks' = callbacks \ {id}
            /\ preview_frames' = WithoutKey(preview_frames, id)
            /\ frame_order' = SelectSeq(frame_order, LAMBDA x : x # id)
            /\ last' = [BaseLast("remove_window") EXCEPT
                          !.id = id, !.unregistered = <<id>>]
       ELSE /\ last' = [BaseLast("remove_window") EXCEPT !.id = id]
            /\ UNCHANGED registryVars
    /\ UNCHANGED <<schedVars, pending_requests, backendVars, thumbnails_visible,
                   rate_was_set>>
    /\ UNCHANGED <<faults, hotkey_manager, config_watcher, tick>>

\* The closure add_window registers, when the alert detector calls it.
alert_callback(id, level) ==
    /\ id \in callbacks
    /\ preview_frames' =
         IF id \in Registered
         THEN [preview_frames EXCEPT ![id] = set_alert(@, level)]
         ELSE preview_frames
    /\ last' = [BaseLast("alert_callback") EXCEPT
                  !.id = id, !.ret = level,
                  !.before = IF id \in Registered
                             THEN AlertOf(preview_frames[id]) ELSE <<>>]
    /\ UNCHANGED <<schedVars, frame_order, callbacks, pending_requests, backendVars,
                   thumbnails_visible, rate_was_set>>
    /\ UNCHANGED <<faults, hotkey_manager, config_watcher, tick>>

\* The closure add_window made for a window, called by the alert detector
\* after remove_window has unregistered it (a call already under way).
stale_alert_callback(id, level) ==
    /\ id \notin callbacks
    /\ preview_frames' =
         IF id \in Registered
         THEN [preview_frames EXCEPT ![id] = set_alert(@, level)]
         ELSE preview_frames
    /\ last' = [BaseLast("stale_alert_callback") EXCEPT !.id = id, !.ret = level]
    /\ UNCHANGED <<schedVars, frame_order, callbacks, pending_requests, backendVars,
                   thumbnails_visible, rate_was_set>>
    /\ UNCHANGED <<faults, hotkey_manager, config_watcher, tick>>

\* Mutant of flash_tick: the tick that ends the alert leaves its level shown.
flash_tick_keeps_level(id) ==
    /\ id \in Registered
    /\ preview_frames[id].flash_active
    /\ LET w == preview_frames[id]
           left == w.alert_flash_counter - 1
       IN  /\ preview_frames' =
                [preview_frames EXCEPT ![id] =
                   IF left <= 0
                   THEN [w EXCEPT !.alert_flash_counter = left,
                                  !.flash_active = FALSE,
                                  !.flash_remaining_ms = 0]
                   ELSE [w EXCEPT !.alert_flash_counter = left,
                                  !.flash_remaining_ms = FlashPeriodMs]]
           /\ last' = [BaseLast("flash_tick") EXCEPT
                         !.id = id, !.ret = preview_frames'[id].alert_level,
                         !.before = AlertOf(w)]
    /\ UNCHANGED <<schedVars, frame_order, callbacks, pending_requests, backendVars,
                   thumbnails_visible, rate_was_set>>
    /\ UNCHANGED <<faults, hotkey_manager, config_watcher, tick>>

\* The widget's flash timer times out (every FlashPeriodMs while it is
\* active) and _flash_tick runs; the level the closing update() repaints
\* with is kept in last.ret.
flash_tick(id) ==
    /\ id \in Registered
    /\ preview_frames[id].flash_active
    /\ LET w == preview_frames[id]
           left == w.alert_flash_counter - 1
       IN  /\ preview_frames' =
                [preview_frames EXCEPT ![id] =
                   IF left <= 0
                   THEN [w EXCEPT !.alert_flash_counter = left,
                                  !.flash_active = FALSE,
                                  !.flash_remaining_ms = 0,
                                  !.alert_level = None]
                   ELSE [w EXCEPT !.alert_flash_counter = left,
                                  !.flash_remaining_ms = FlashPeriodMs]]
           /\ last' = [BaseLast("flash_tick") EXCEPT
                         !.id = id, !.ret = preview_frames'[id].alert_level,
                         !.before = AlertOf(w)]
    /\ UNCHANGED <<schedVars, frame_order, callbacks, pending_requests, backendVars,
                   thumbnails_visible, rate_was_set>>
    /\ UNCHANGED <<faults, hotkey_manager, config_watcher, tick>>

\* The granularity of time: half a flash period.
TimeStepMs == FlashPeriodMs \div 2

\* Time passes, by one step, for every running flash timer; no timer is
\* left waiting past its timeout.
elapse ==
    /\ \E x \in Registered : preview_frames[x].flash_active
    /\ \A x \in Registered :
          preview_frames[x].flash_active =>
            preview_frames[x].flash_remaining_ms >= TimeStepMs
    /\ preview_frames' =
         [x \in Registered |->
            IF preview_frames[x].flash_active
            THEN [preview_frames[x] EXCEPT !.flash_remaining_ms = @ - TimeStepMs,
                                           !.alert_age_ms = @ + TimeStepMs]
            ELSE preview_frames[x]]
    /\ last' = BaseLast("elapse")
    /\ UNCHANGED <<schedVars, frame_order, callbacks, pending_requests, backendVars,
                   thumbnails_visible, rate_was_set>>
    /\ UNCHANGED <<faults, hotkey_manager, config_watcher, tick>>

(***************************************************************************)
(* MainTab.                                                                *)
(***************************************************************************)
toggle_thumbnails_visibility ==
    /\ thumbnails_visible' = ~thumbnails_visible
    /\ preview_frames' =
         [x \in Registered |-> [preview_frames[x] EXCEPT !.visible = thumbnails_visible']]
    /\ last' = [BaseLast("toggle_thumbnails_visibility") EXCEPT
                  !.before = <<thumbnails_visible,
                               [x \in Registered |-> preview_frames[x].visible]>>]
    /\ UNCHANGED <<schedVars, frame_order, callbacks, pending_requests, backendVars,
                   rate_was_set>>
    /\ UNCHANGED <<faults, hotkey_manager, config_watcher, tick>>

(***************************************************************************)
(* The capture system, at its interface: a worker finishes a request and   *)
(* queues (request_id, window_id, image), image being None on failure.     *)
(* The image of request r is written r.                                    *)
(***************************************************************************)
capture_done(rid, ok) ==
    /\ rid \in DOMAIN backend_requests
    /\ results' = Append(results, [request_id |-> rid,
                                   window_id |-> backend_requests[rid],
                                   image |-> IF ok THEN rid ELSE NoImage])
    /\ backend_requests' = WithoutKey(backend_requests, rid)
    /\ last' = [BaseLast("capture_done") EXCEPT !.ret = IF ok THEN "image" ELSE None]
    /\ UNCHANGED <<schedVars, registryVars, pending_requests, next_rid,
                   thumbnails_visible, rate_was_set>>
    /\ UNCHANGED <<faults, hotkey_manager, config_watcher, tick>>

\* The capture system starts its request ids over (it is restarted, or its
\* counter wraps): capture_window_async will return ids it returned before.
request_ids_restart ==
    /\ next_rid > 1
    /\ next_rid' = 1
    /\ last' = BaseLast("request_ids_restart")
    /\ UNCHANGED <<schedVars, registryVars, pending_requests, backend_requests,
                   results, thumbnails_visible, rate_was_set>>
    /\ UNCHANGED <<faults, hotkey_manager, config_watcher, tick>>

(***************************************************************************)
(* WindowManager._capture_cycle and _process_capture_results.              *)
(***************************************************************************)
\* What analyze_frame may do: return no alert, return a level, or (in the
\* runs where that failure is let in) raise.
AnalyzeOutcomes ==
    {None} \cup Levels \cup (IF "analyze" \in faults THEN {"raise"} ELSE {})

\* The kinds of failure a run may let in: capture_window_async raising for
\* a window, update_frame failing before or after it stores the pixmap,
\* analyze_frame raising.
FaultKinds == {"submit", "convert", "paint", "analyze"}

\* The visible frames in the order the dict iteration meets them.
VisibleOrderIgnoresVisibility == frame_order

VisibleOrder == SelectSeq(frame_order, LAMBDA x : preview_frames[x].visible)

\* Whether analyze_frame, besides returning the level, calls the window's
\* registered alert callback with it: the alert analysis is a call that
\* returns an optional level and nothing more.
AnalysisCallsBack == FALSE

\* Mutant of ProcessResult: a result whose window is gone is skipped before
\* its pending entry is removed.
ProcessResultSkipsOrphan(acc, res) ==
    LET wid == res.window_id
        known == wid \in DOMAIN acc.frames
        analyzed == known /\ res.image # NoImage
        step(widget, level, caught) ==
            [acc EXCEPT
               !.frames = IF known THEN [acc.frames EXCEPT ![wid] = widget]
                          ELSE acc.frames,
               !.pending = IF known THEN WithoutKey(acc.pending, res.request_id)
                            ELSE acc.pending,
               !.log = Append(acc.log,
                              [request_id |-> res.request_id,
                               window_id |-> wid,
                               popped |-> IF res.request_id \in DOMAIN acc.pending
                                          THEN acc.pending[res.request_id]
                                          ELSE None,
                               update_frame |-> known,
                               analyze_frame |-> analyzed,
                               set_alert |-> level,
                               set_alert_calls |-> IF level = None THEN 0
                                                   ELSE IF AnalysisCallsBack
                                                   THEN 2 ELSE 1,
                               caught |-> caught])]
    IN  IF ~known
        THEN {step(NewWidget, None, {})}
        ELSE {step(IF analyzed /\ a \in Levels
                   THEN set_alert(update_frame(acc.frames[wid], res.image, u), a)
                   ELSE update_frame(acc.frames[wid], res.image, u),
                   IF analyzed /\ a \in Levels THEN a ELSE None,
                   UpdateCaught(res.image, u) \cup
                     (IF analyzed /\ a = "raise" THEN {"analyze_frame"} ELSE {}))
                : u \in UpdateOutcomes, a \in AnalyzeOutcomes}

\* Mutant of ProcessResult: an update_frame that failed skips the analysis.
ProcessResultSkipsAnalysisOnError(acc, res) ==
    LET wid == res.window_id
        known == wid \in DOMAIN acc.frames
        analyzed(u) == known /\ res.image # NoImage /\ UpdateCaught(res.image, u) = {}
        step(widget, level, caught, called) ==
            [acc EXCEPT
               !.frames = IF known THEN [acc.frames EXCEPT ![wid] = widget]
                          ELSE acc.frames,
               !.pending = WithoutKey(acc.pending, res.request_id),
               !.log = Append(acc.log,
                              [request_id |-> res.request_id,
                               window_id |-> wid,
                               popped |-> IF res.request_id \in DOMAIN acc.pending
                                          THEN acc.pending[res.request_id]
                                          ELSE None,
                               update_frame |-> known,
                               analyze_frame |-> called,
                               set_alert |-> level,
                               set_alert_calls |-> IF level = None THEN 0
                                                   ELSE IF AnalysisCallsBack
                                                   THEN 2 ELSE 1,
                               caught |-> caught])]
    IN  IF ~known
        THEN {step(NewWidget, None, {}, FALSE)}
        ELSE {step(IF analyzed(u) /\ a \in Levels
                   THEN set_alert(update_frame(acc.frames[wid], res.image, u), a)
                   ELSE update_frame(acc.frames[wid], res.image, u),
                   IF analyzed(u) /\ a \in Levels THEN a ELSE None,
                   UpdateCaught(res.image, u) \cup
                     (IF analyzed(u) /\ a = "raise" THEN {"analyze_frame"} ELSE {}),
                   analyzed(u))
                : u \in UpdateOutcomes, a \in AnalyzeOutcomes}

\* Mutant of ProcessResult: an alert is set on every registered window.
ProcessResultAlertsEveryWindow(acc, res) ==
    LET wid == res.window_id
        known == wid \in DOMAIN acc.frames
        analyzed == known /\ res.image # NoImage
        step(widget, level, caught) ==
            [acc EXCEPT
               !.frames = IF known
                          THEN [x \in DOMAIN acc.frames |->
                                  IF x = wid THEN widget
                                  ELSE IF level = None THEN acc.frames[x]
                                  ELSE set_alert(acc.frames[x], level)]
                          ELSE acc.frames,
               !.pending = WithoutKey(acc.pending, res.request_id),
               !.log = Append(acc.log,
                              [request_id |-> res.request_id,
                               window_id |-> wid,
                               popped |-> IF res.request_id \in DOMAIN acc.pending
                                          THEN acc.pending[res.request_id]
                                          ELSE None,
                               update_frame |-> known,
                               analyze_frame |-> analyzed,
                               set_alert |-> level,
                               set_alert_calls |-> IF level = None THEN 0 ELSE 1,
                               caught |-> caught])]
    IN  IF ~known
        THEN {step(NewWidget, None, {})}
        ELSE {step(IF analyzed /\ a \in Levels
                   THEN set_alert(update_frame(acc.frames[wid], res.image, u), a)
                   ELSE update_frame(acc.frames[wid], res.image, u),
                   IF analyzed /\ a \in Levels THEN a ELSE None,
                   UpdateCaught(res.image, u) \cup
                     (IF analyzed /\ a = "raise" THEN {"analyze_frame"} ELSE {}))
                : u \in UpdateOutcomes, a \in AnalyzeOutcomes}

\* What one iteration of the while loop can lead to, for a polled result
\* `res`: one outcome per behaviour of update_frame and analyze_frame.  `acc`
\* carries the frames, the pending map and the log of the calls made so far;
\* a log entry tells what pending_requests.pop(request_id, None) returned,
\* which calls were made, the alert set, and which calls raised an exception
\* that was caught (by update_frame itself, or by the loop's try/except).
ProcessResult(acc, res) ==
    LET wid == res.window_id
        known == wid \in DOMAIN acc.frames
        analyzed == known /\ res.image # NoImage
        step(widget, level, caught) ==
            [acc EXCEPT
               !.frames = IF known THEN [acc.frames EXCEPT ![wid] = widget]
                          ELSE acc.frames,
               !.pending = WithoutKey(acc.pending, res.request_id),
               !.log = Append(acc.log,
                              [request_id |-> res.request_id,
                               window_id |-> wid,
                               popped |-> IF res.request_id \in DOMAIN acc.pending
                                          THEN acc.pending[res.request_id]
                                          ELSE None,
                               update_frame |-> known,
                               analyze_frame |-> analyzed,
                               set_alert |-> level,
                               set_alert_calls |-> IF level = None THEN 0
                                                   ELSE IF AnalysisCallsBack
                                                   THEN 2 ELSE 1,
                               caught |-> caught])]
    IN  IF ~known
        THEN {step(NewWidget, None, {})}
        ELSE {step(IF analyzed /\ a \in Levels
                   THEN set_alert(update_frame(acc.frames[wid], res.image, u), a)
                   ELSE update_frame(acc.frames[wid], res.image, u),
                   IF analyzed /\ a \in Levels THEN a ELSE None,
                   UpdateCaught(res.image, u) \cup
                     (IF analyzed /\ a = "raise" THEN {"analyze_frame"} ELSE {}))
                : u \in UpdateOutcomes, a \in AnalyzeOutcomes}

\* Mutant of Drain: the loop leaves after the first result it processed.
RECURSIVE DrainStopsAfterFirst(_, _, _)
DrainStopsAfterFirst(acc, queue, i) ==
    IF i > Len(queue)
    THEN {[acc EXCEPT !.polls = @ + 1]}
    ELSE {[nxt EXCEPT !.polls = @ + 1] : nxt \in ProcessResult(acc, queue[i])}

\* The while loop over the results queued when the cycle starts: every
\* state it can end in.  Each iteration polls once; the poll that finds the
\* queue empty ends the loop.
\* Mutant of Drain: an exception while a result is handled ends the loop.
RECURSIVE DrainAbortsOnError(_, _, _)
DrainAbortsOnError(acc, queue, i) ==
    IF i > Len(queue)
    THEN {[acc EXCEPT !.polls = @ + 1]}
    ELSE UNION {IF nxt.log[Len(nxt.log)].caught # {}
                THEN {[nxt EXCEPT !.polls = @ + 1]}
                ELSE DrainAbortsOnError([nxt EXCEPT !.polls = @ + 1], queue, i + 1)
                  : nxt \in ProcessResult(acc, queue[i])}

RECURSIVE Drain(_, _, _)
Drain(acc, queue, i) ==
    IF i > Len(queue)
    THEN {[acc EXCEPT !.polls = @ + 1]}
    ELSE UNION {Drain([nxt EXCEPT !.polls = @ + 1], queue, i + 1)
                  : nxt \in ProcessResult(acc, queue[i])}

\* The submission loop: `accepted` are the visible windows whose
\* capture_window_async returns a request id, the others raise.
SubmitsStopAtFailure(accepted) ==
    LET order == VisibleOrder
        okBefore(i) == Cardinality({j \in 1..(i - 1) : order[j] \in accepted})
        reached == {i \in 1..Len(order) : \A j \in 1..(i - 1) : order[j] \in accepted}
    IN  [i \in reached |->
           [window_id |-> order[i],
            scale |-> preview_frames[order[i]].zoom_factor,
            request_id |-> IF order[i] \in accepted
                           THEN next_rid + okBefore(i)
                           ELSE NoImage]]

Submits(accepted) ==
    LET order == VisibleOrder
        okBefore(i) == Cardinality({j \in 1..(i - 1) : order[j] \in accepted})
    IN  [i \in 1..Len(order) |->
           [window_id |-> order[i],
            scale |-> preview_frames[order[i]].zoom_factor,
            request_id |-> IF order[i] \in accepted
                           THEN next_rid + okBefore(i)
                           ELSE NoImage]]

\* The sets of visible windows whose capture_window_async may succeed in one
\* cycle: the capture system refuses what exceeds MaxRid, and, where
\* submission failures are let in, any other submission as well.
AcceptedSets ==
    LET order == VisibleOrder
        room == Min(Len(order), MaxRid - next_rid + 1)
    IN  IF "submit" \in faults
        THEN {a \in SUBSET SeqToSet(order) : Cardinality(a) <= room}
        ELSE {{order[i] : i \in 1..room}}

capture_cycle ==
    /\ timer_active
    /\ \E accepted \in AcceptedSets :
         LET subs == Submits(accepted)
             okSubs == SelectSeq(subs, LAMBDA s : s.request_id # NoImage)
             newRids == {okSubs[i].request_id : i \in 1..Len(okSubs)}
             owner(r) == okSubs[r - next_rid + 1].window_id
             recorded == [r \in (DOMAIN pending_requests) \cup newRids |->
                            IF r \in newRids THEN owner(r) ELSE pending_requests[r]]
             start == [frames |-> preview_frames, pending |-> recorded,
                       log |-> <<>>, polls |-> 0]
         IN  /\ next_rid + Len(okSubs) - 1 <= MaxRid
             /\ backend_requests' =
                  [r \in (DOMAIN backend_requests) \cup newRids |->
                     IF r \in newRids THEN owner(r) ELSE backend_requests[r]]
             /\ next_rid' = next_rid + Len(okSubs)
             /\ results' = <<>>
             /\ \E done \in Drain(start, results, 1) :
                  /\ preview_frames' = done.frames
                  /\ pending_requests' = done.pending
                  /\ last' = [BaseLast("capture_cycle") EXCEPT
                                !.submits = subs,
                                !.polls = done.polls,
                                !.drain = done.log]
    /\ UNCHANGED <<schedVars, frame_order, callbacks, thumbnails_visible, rate_was_set>>
    /\ UNCHANGED <<faults, hotkey_manager, config_watcher, tick>>

(***************************************************************************)
(* The capture cycle step by step.  _capture_cycle runs on the GUI thread, *)
(* so no other handler runs inside it, but the capture workers complete    *)
(* requests while it runs: `tick` holds the position of the handler, the   *)
(* windows the for loop has still to visit, and the submits and polls it   *)
(* made so far.                                                            *)
(***************************************************************************)
NoTick == [pc |-> "idle", todo |-> <<>>, events |-> <<>>, drains |-> 0]

TickEvent(kind, wid, rid) ==
    [kind |-> kind, window_id |-> wid, request_id |-> rid]

tickFrame == <<faults, hotkey_manager, config_watcher, rate_was_set>>

\* The timer fires: _capture_cycle starts iterating preview_frames.items().
tick_begin ==
    /\ timer_active
    /\ tick.pc = "idle"
    /\ tick' = [pc |-> "submit", todo |-> frame_order, events |-> <<>>,
                drains |-> 0]
    /\ last' = BaseLast("tick_begin")
    /\ UNCHANGED <<schedVars, registryVars, pending_requests, backendVars,
                   thumbnails_visible>>
    /\ UNCHANGED tickFrame

\* One pass of the for loop: a hidden frame is skipped, a visible one is
\* submitted; capture_window_async returns a request id or raises.
tick_submit ==
    /\ tick.pc = "submit"
    /\ tick.todo # <<>>
    /\ LET wid == Head(tick.todo)
       IN  IF ~preview_frames[wid].visible
           THEN /\ tick' = [tick EXCEPT !.todo = Tail(@)]
                /\ UNCHANGED <<pending_requests, backendVars>>
           ELSE \/ /\ next_rid <= MaxRid
                   /\ pending_requests' =
                        [r \in (DOMAIN pending_requests) \cup {next_rid} |->
                           IF r = next_rid THEN wid ELSE pending_requests[r]]
                   /\ backend_requests' =
                        [r \in (DOMAIN backend_requests) \cup {next_rid} |->
                           IF r = next_rid THEN wid ELSE backend_requests[r]]
                   /\ next_rid' = next_rid + 1
                   /\ results' = results
                   /\ tick' = [tick EXCEPT
                                 !.todo = Tail(@),
                                 !.events = Append(@, TickEvent("submit", wid,
                                                                next_rid))]
                \/ /\ "submit" \in faults \/ next_rid > MaxRid
                   /\ tick' = [tick EXCEPT
                                 !.todo = Tail(@),
                                 !.events = Append(@, TickEvent("submit", wid,
                                                                NoImage))]
                   /\ UNCHANGED <<pending_requests, backendVars>>
    /\ last' = BaseLast("tick_submit")
    /\ UNCHANGED <<schedVars, registryVars, thumbnails_visible>>
    /\ UNCHANGED tickFrame

\* Mutant of tick_call_drain: no poll when the loop submitted nothing.
tick_call_drain_if_submitted ==
    /\ tick.pc = "submit"
    /\ tick.todo = <<>>
    /\ tick' = IF \E i \in 1..Len(tick.events) :
                     tick.events[i].request_id # NoImage
               THEN [tick EXCEPT !.pc = "drain", !.drains = @ + 1]
               ELSE [tick EXCEPT !.pc = "idle"]
    /\ last' = BaseLast("tick_call_drain")
    /\ UNCHANGED <<schedVars, registryVars, pending_requests, backendVars,
                   thumbnails_visible>>
    /\ UNCHANGED tickFrame

\* The for loop is over: _capture_cycle calls _process_capture_results.
tick_call_drain ==
    /\ tick.pc = "submit"
    /\ tick.todo = <<>>
    /\ tick' = [tick EXCEPT !.pc = "drain", !.drains = @ + 1]
    /\ last' = BaseLast("tick_call_drain")
    /\ UNCHANGED <<schedVars, registryVars, pending_requests, backendVars,
                   thumbnails_visible>>
    /\ UNCHANGED tickFrame

\* Mutant of tick_poll: get_result blocks while a request is unresolved.
tick_poll_waits ==
    /\ tick.pc = "drain"
    /\ results # <<>> \/ backend_requests = <<>>
    /\ IF results = <<>>
       THEN /\ tick' = [tick EXCEPT
                          !.pc = "idle",
                          !.events = Append(@, TickEvent("poll", "-", NoImage))]
            /\ last' = BaseLast("tick_poll")
            /\ UNCHANGED <<preview_frames, pending_requests, results>>
       ELSE \E nxt \in ProcessResult([frames |-> preview_frames,
                                      pending |-> pending_requests,
                                      log |-> <<>>, polls |-> 0],
                                     Head(results)) :
               /\ preview_frames' = nxt.frames
               /\ pending_requests' = nxt.pending
               /\ results' = Tail(results)
               /\ tick' = [tick EXCEPT
                             !.events =
                                 Append(@, TickEvent("poll",
                                                     Head(results).window_id,
                                                     Head(results).request_id))]
               /\ last' = [BaseLast("tick_poll") EXCEPT !.drain = nxt.log]
    /\ UNCHANGED <<schedVars, frame_order, callbacks, backend_requests, next_rid,
                   thumbnails_visible>>
    /\ UNCHANGED tickFrame

\* One pass of the while loop: get_result returns nothing and the loop ends,
\* or it returns a result that is processed and its request popped.
tick_poll ==
    /\ tick.pc = "drain"
    /\ IF results = <<>>
       THEN /\ tick' = [tick EXCEPT
                          !.pc = "idle",
                          !.events = Append(@, TickEvent("poll", "-", NoImage))]
            /\ last' = BaseLast("tick_poll")
            /\ UNCHANGED <<preview_frames, pending_requests, results>>
       ELSE \E nxt \in ProcessResult([frames |-> preview_frames,
                                      pending |-> pending_requests,
                                      log |-> <<>>, polls |-> 0],
                                     Head(results)) :
               /\ preview_frames' = nxt.frames
               /\ pending_requests' = nxt.pending
               /\ results' = Tail(results)
               /\ tick' = [tick EXCEPT
                             !.events =
                                 Append(@, TickEvent("poll",
                                                     Head(results).window_id,
                                                     Head(results).request_id))]
               /\ last' = [BaseLast("tick_poll") EXCEPT !.drain = nxt.log]
    /\ UNCHANGED <<schedVars, frame_order, callbacks, backend_requests, next_rid,
                   thumbnails_visible>>
    /\ UNCHANGED tickFrame

(***************************************************************************)
(* HotkeyManager.  Its module is not part of the source tree; the          *)
(* operations below follow what tests/test_hotkey_manager.py fixes: the    *)
(* three dictionaries, the classification of a key combination, and the    *)
(* key handlers.  A key combination is the sequence of its tokens:         *)
(* "<ctrl>+a" is <<"ctrl", "a">>, "a" and "<a>" are both <<"a">>.          *)
(***************************************************************************)
Modifiers == {"ctrl", "alt", "shift"}
PlainKeys == {"a", "x", "f1"}
Keys == Modifiers \cup PlainKeys
HotkeyNames == {"hk1", "hk2", "hk3"}
KeyCombos == {<<"a">>, <<"x">>, <<"f1">>, <<"ctrl">>,
              <<"ctrl", "a">>, <<"ctrl", "shift", "a">>, <<"shift", "f1">>}

\* HotkeyManager.__init__: empty dictionaries, no modifier held.
NewHotkeyManager ==
    [hotkeys |-> <<>>, single_key_hotkeys |-> <<>>, combo_hotkeys |-> <<>>,
     pressed_modifiers |-> {}]

\* _is_single_key: one key, no modifier in front of it, not a bare modifier.
is_single_key(combo) == Len(combo) = 1 /\ combo[1] \notin Modifiers

\* Dictionary helpers: d[k] = v, and d.pop(k, None).
DictSet(d, k, v) ==
    [x \in (DOMAIN d) \cup {k} |-> IF x = k THEN v ELSE d[x]]
DictPop(d, k) == [x \in (DOMAIN d) \ {k} |-> d[x]]

\* The names holding a combination.
HoldersOf(combo) ==
    {n \in DOMAIN hotkey_manager.hotkeys : hotkey_manager.hotkeys[n] = combo}

hotkeyFrame ==
    <<refresh_rate, timer_active, timer_interval, preview_frames, frame_order,
      pending_requests, callbacks, backend_requests, results, next_rid,
      thumbnails_visible, faults, config_watcher, tick, rate_was_set>>

\* register_hotkey(name, combo, callback), for a name that is not registered
\* and a combination no registered name holds: the cases the tests fix.
register_hotkey(name, combo) ==
    /\ name \notin DOMAIN hotkey_manager.hotkeys
    /\ HoldersOf(combo) = {}
    /\ hotkey_manager' =
         [hotkey_manager EXCEPT
            !.hotkeys = DictSet(@, name, combo),
            !.single_key_hotkeys =
                IF is_single_key(combo) THEN DictSet(@, combo[1], name) ELSE @,
            !.combo_hotkeys =
                IF is_single_key(combo) THEN @ ELSE DictSet(@, combo, name)]
    /\ last' = [BaseLast("register_hotkey") EXCEPT
                  !.id = name, !.combo = combo, !.ret = TRUE,
                  !.listener_restarts = 1]
    /\ UNCHANGED hotkeyFrame

\* Mutant of unregister_hotkey: the name goes, its dictionary entry stays.
unregister_hotkey_keeps_entry(name) ==
    /\ IF name \in DOMAIN hotkey_manager.hotkeys
       THEN /\ hotkey_manager' =
                 [hotkey_manager EXCEPT !.hotkeys = DictPop(@, name)]
            /\ last' = [BaseLast("unregister_hotkey") EXCEPT
                          !.id = name, !.combo = hotkey_manager.hotkeys[name],
                          !.ret = TRUE, !.listener_restarts = 1]
       ELSE /\ UNCHANGED hotkey_manager
            /\ last' = [BaseLast("unregister_hotkey") EXCEPT
                          !.id = name, !.ret = FALSE]
    /\ UNCHANGED hotkeyFrame

\* unregister_hotkey(name).
unregister_hotkey(name) ==
    /\ IF name \in DOMAIN hotkey_manager.hotkeys
       THEN LET combo == hotkey_manager.hotkeys[name]
            IN  /\ hotkey_manager' =
                     [hotkey_manager EXCEPT
                        !.hotkeys = DictPop(@, name),
                        !.single_key_hotkeys =
                            IF is_single_key(combo)
                            THEN DictPop(@, combo[1]) ELSE @,
                        !.combo_hotkeys =
                            IF is_single_key(combo)
                            THEN @ ELSE DictPop(@, combo)]
                /\ last' = [BaseLast("unregister_hotkey") EXCEPT
                              !.id = name, !.combo = combo, !.ret = TRUE,
                              !.listener_restarts = 1]
       ELSE /\ UNCHANGED hotkey_manager
            /\ last' = [BaseLast("unregister_hotkey") EXCEPT
                          !.id = name, !.ret = FALSE]
    /\ UNCHANGED hotkeyFrame

\* Mutant of on_key_press: the held modifiers do not block a single key.
on_key_press_ignores_modifiers(key) ==
    /\ hotkey_manager' =
         [hotkey_manager EXCEPT
            !.pressed_modifiers =
                IF key \in Modifiers THEN @ \cup {key} ELSE @]
    /\ last' = [BaseLast("on_key_press") EXCEPT
                  !.key = key,
                  !.callbacks_called =
                      IF /\ key \notin Modifiers
                         /\ key \in DOMAIN hotkey_manager.single_key_hotkeys
                      THEN <<hotkey_manager.single_key_hotkeys[key]>>
                      ELSE <<>>]
    /\ UNCHANGED hotkeyFrame

\* _on_key_press(key): a modifier is recorded as held; any other key calls
\* the callback of the single-key hotkey on it when no modifier is held.
on_key_press(key) ==
    /\ hotkey_manager' =
         [hotkey_manager EXCEPT
            !.pressed_modifiers =
                IF key \in Modifiers THEN @ \cup {key} ELSE @]
    /\ last' = [BaseLast("on_key_press") EXCEPT
                  !.key = key,
                  !.callbacks_called =
                      IF /\ key \notin Modifiers
                         /\ hotkey_manager.pressed_modifiers = {}
                         /\ key \in DOMAIN hotkey_manager.single_key_hotkeys
                      THEN <<hotkey_manager.single_key_hotkeys[key]>>
                      ELSE <<>>]
    /\ UNCHANGED hotkeyFrame

\* _on_key_release(key): a modifier is no longer held.
on_key_release(key) ==
    /\ hotkey_manager' =
         [hotkey_manager EXCEPT
            !.pressed_modifiers =
                IF key \in Modifiers THEN @ \ {key} ELSE @]
    /\ last' = [BaseLast("on_key_release") EXCEPT !.key = key]
    /\ UNCHANGED hotkeyFrame

(***************************************************************************)
(* ConfigWatcher.  Its module is not part of the source tree; the          *)
(* operations below follow what tests/test_config_watcher.py fixes: the    *)
(* running flag, the observer, the poll timer and the single-shot debounce *)
(* timer.  `unreported` counts the file changes not yet followed by a      *)
(* config_changed emission and `since_change_ms` the time since the last   *)
(* file change.                                                            *)
(***************************************************************************)
NewConfigWatcher ==
    [running |-> FALSE, observer |-> None, poll_active |-> FALSE,
     debounce_active |-> FALSE, debounce_remaining_ms |-> 0,
     unreported |-> 0, since_change_ms |-> 0]

TimerCall(name, ms) == [call |-> name, ms |-> ms]

watcherFrame ==
    <<refresh_rate, timer_active, timer_interval, preview_frames, frame_order,
      pending_requests, callbacks, backend_requests, results, next_rid,
      thumbnails_visible, faults, hotkey_manager, tick, rate_was_set>>

\* ConfigWatcher.start(): with watchdog an observer is started, without it
\* the poll timer.
watcher_start(watchdog) ==
    /\ IF config_watcher.running
       THEN /\ UNCHANGED config_watcher
            /\ last' = BaseLast("watcher_start")
       ELSE /\ config_watcher' =
                 [config_watcher EXCEPT
                    !.running = TRUE,
                    !.observer = IF watchdog THEN "observer" ELSE @,
                    !.poll_active = IF watchdog THEN @ ELSE TRUE]
            /\ last' = [BaseLast("watcher_start") EXCEPT
                          !.calls =
                              IF watchdog
                              THEN <<TimerCall("_start_watchdog", 0)>>
                              ELSE <<TimerCall("_start_polling", PollMs)>>]
    /\ UNCHANGED watcherFrame

\* ConfigWatcher.stop().
watcher_stop ==
    /\ IF config_watcher.running
       THEN /\ config_watcher' =
                 [config_watcher EXCEPT
                    !.running = FALSE, !.observer = None,
                    !.poll_active = FALSE, !.debounce_active = FALSE,
                    !.debounce_remaining_ms = 0]
            /\ last' = [BaseLast("watcher_stop") EXCEPT
                          !.calls =
                              (IF config_watcher.observer # None
                               THEN <<TimerCall("observer.stop", 0)>>
                               ELSE <<>>)
                              \o <<TimerCall("_poll_timer.stop", 0),
                                   TimerCall("_debounce_timer.stop", 0)>>]
       ELSE /\ UNCHANGED config_watcher
            /\ last' = BaseLast("watcher_stop")
    /\ UNCHANGED watcherFrame

\* Mutant of on_file_changed: a running debounce timer is left running.
on_file_changed_keeps_timer ==
    /\ config_watcher.unreported < MaxBurst
    /\ config_watcher' =
         [config_watcher EXCEPT
            !.debounce_active = TRUE,
            !.debounce_remaining_ms =
                IF config_watcher.debounce_active THEN @ ELSE DebounceMs,
            !.unreported = @ + 1,
            !.since_change_ms = 0]
    /\ last' = [BaseLast("on_file_changed") EXCEPT
                  !.calls = <<TimerCall("_debounce_timer.stop", 0),
                              TimerCall("_debounce_timer.start", DebounceMs)>>]
    /\ UNCHANGED watcherFrame

\* ConfigWatcher._on_file_changed(): stop the debounce timer, start it again.
on_file_changed ==
    /\ config_watcher.unreported < MaxBurst
    /\ config_watcher' =
         [config_watcher EXCEPT
            !.debounce_active = TRUE,
            !.debounce_remaining_ms = DebounceMs,
            !.unreported = @ + 1,
            !.since_change_ms = 0]
    /\ last' = [BaseLast("on_file_changed") EXCEPT
                  !.calls = <<TimerCall("_debounce_timer.stop", 0),
                              TimerCall("_debounce_timer.start", DebounceMs)>>]
    /\ UNCHANGED watcherFrame

\* The debounce timer's timeout: _emit_change() emits config_changed.
emit_change ==
    /\ config_watcher.debounce_active
    /\ config_watcher.debounce_remaining_ms = 0
    /\ config_watcher' =
         [config_watcher EXCEPT !.debounce_active = FALSE, !.unreported = 0]
    /\ last' = [BaseLast("emit_change") EXCEPT
                  !.before = <<config_watcher.unreported,
                               config_watcher.since_change_ms>>,
                  !.calls = <<TimerCall("config_changed.emit", 0)>>]
    /\ UNCHANGED watcherFrame

\* Time passing while the debounce timer runs.
watcher_elapse ==
    /\ config_watcher.debounce_active
    /\ config_watcher.debounce_remaining_ms >= DebounceStepMs
    /\ config_watcher' =
         [config_watcher EXCEPT
            !.debounce_remaining_ms = @ - DebounceStepMs,
            !.since_change_ms = @ + DebounceStepMs]
    /\ last' = BaseLast("watcher_elapse")
    /\ UNCHANGED watcherFrame

(***************************************************************************)
(* Initial state: a WindowManager right after __init__.                    *)
(***************************************************************************)
Init ==
    /\ refresh_rate = DefaultRate
    /\ timer_active = FALSE
    /\ timer_interval = 0
    /\ preview_frames = <<>>
    /\ frame_order = <<>>
    /\ pending_requests = <<>>
    /\ callbacks = {}
    /\ backend_requests = <<>>
    /\ results = <<>>
    /\ next_rid = 1
    /\ thumbnails_visible = TRUE
    /\ faults = {}
    /\ hotkey_manager = NewHotkeyManager
    /\ config_watcher = NewConfigWatcher
    /\ tick = NoTick
    /\ rate_was_set = FALSE
    /\ last = BaseLast("init")

\* A MainTab right after __init__: the manager constructed and its capture
\* loop started, in a run that lets in the failures `kinds`.
InitMainTab(kinds) ==
    /\ refresh_rate = DefaultRate
    /\ timer_active = TRUE
    /\ timer_interval = Interval(DefaultRate)
    /\ preview_frames = <<>>
    /\ frame_order = <<>>
    /\ pending_requests = <<>>
    /\ callbacks = {}
    /\ backend_requests = <<>>
    /\ results = <<>>
    /\ next_rid = 1
    /\ thumbnails_visible = TRUE
    /\ faults = kinds
    /\ hotkey_manager = NewHotkeyManager
    /\ config_watcher = NewConfigWatcher
    /\ tick = NoTick
    /\ rate_was_set = FALSE
    /\ last = [BaseLast("init") EXCEPT !.timer_calls = <<"start">>]

(***************************************************************************)
(* SpecRate: the capture timer alone, under every fps in FpsInputs.        *)
(***************************************************************************)
FpsInputs == (MinRate - FpsBelow)..(MaxRate + FpsAbove)

NextRate ==
    \/ start_capture_loop
    \/ stop_capture_loop
    \/ \E fps \in FpsInputs : set_refresh_rate(fps)

SpecRate == Init /\ [][NextRate]_vars

(***************************************************************************)
(* Spec: the engine.  The rate stays at its default and every thumbnail   *)
(* stays shown; the timer, the registry, the capture system and the        *)
(* capture cycle run in every interleaving.                                *)
(***************************************************************************)
Next ==
    \/ start_capture_loop
    \/ stop_capture_loop
    \/ \E id \in WindowIds : add_window(id)
    \/ \E id \in WindowIds : remove_window(id)
    \/ \E rid \in 1..MaxRid, ok \in BOOLEAN : capture_done(rid, ok)
    \/ capture_cycle

Spec == Init /\ [][Next]_vars

(***************************************************************************)
(* The main tab in use: the loop runs from construction on, windows come   *)
(* and go, and the user hides and shows the thumbnails.                    *)
(***************************************************************************)
InitVis == InitMainTab({})

NextVis ==
    \/ \E id \in WindowIds : add_window(id)
    \/ \E id \in WindowIds : remove_window(id)
    \/ toggle_thumbnails_visibility
    \/ \E rid \in 1..MaxRid, ok \in BOOLEAN : capture_done(rid, ok)
    \/ capture_cycle

SpecVis == InitVis /\ [][NextVis]_vars

(***************************************************************************)
(* The main tab with a capture system that refuses submissions.            *)
(***************************************************************************)
InitSubmit == InitMainTab({"submit"})

NextSubmit ==
    \/ \E id \in WindowIds : add_window(id)
    \/ \E id \in WindowIds : remove_window(id)
    \/ \E rid \in 1..MaxRid, ok \in BOOLEAN : capture_done(rid, ok)
    \/ capture_cycle

SpecSubmit == InitSubmit /\ [][NextSubmit]_vars

(***************************************************************************)
(* The main tab with frames that fail to convert and an alert analysis     *)
(* that raises.                                                            *)
(***************************************************************************)
InitDrain == InitMainTab({"convert", "analyze"})

NextDrain ==
    \/ \E id \in WindowIds : add_window(id)
    \/ \E id \in WindowIds : remove_window(id)
    \/ \E rid \in 1..MaxRid, ok \in BOOLEAN : capture_done(rid, ok)
    \/ capture_cycle

SpecDrain == InitDrain /\ [][NextDrain]_vars

(***************************************************************************)
(* The main tab with every collaborator failing: submissions are refused,  *)
(* captures fail, frames fail to convert, the alert analysis raises.       *)
(***************************************************************************)
InitHarsh == InitMainTab({"submit", "convert", "analyze"})

NextHarsh ==
    \/ \E id \in WindowIds : add_window(id)
    \/ \E rid \in 1..MaxRid, ok \in BOOLEAN : capture_done(rid, ok)
    \/ capture_cycle

SpecHarsh == InitHarsh /\ [][NextHarsh]_vars

(***************************************************************************)
(* The main tab and the alert detector's callbacks: windows come and go    *)
(* between capture cycles while the detector calls the closures it was     *)
(* given, one of a removed window included.                                *)
(***************************************************************************)
InitSub == InitMainTab({})

NextSub ==
    \/ \E id \in WindowIds : add_window(id)
    \/ \E id \in WindowIds : remove_window(id)
    \/ \E id \in WindowIds, level \in Levels : alert_callback(id, level)
    \/ \E id \in WindowIds, level \in Levels : stale_alert_callback(id, level)
    \/ capture_cycle

SpecSub == InitSub /\ [][NextSub]_vars

(***************************************************************************)
(* The main tab with a capture system whose request ids are not unique.    *)
(***************************************************************************)
InitReuse == InitMainTab({})

NextReuse ==
    \/ \E id \in WindowIds : add_window(id)
    \/ \E id \in WindowIds : remove_window(id)
    \/ \E rid \in 1..MaxRid, ok \in BOOLEAN : capture_done(rid, ok)
    \/ request_ids_restart
    \/ capture_cycle

SpecReuse == InitReuse /\ [][NextReuse]_vars

(***************************************************************************)
(* The alert of a preview: the detector calls a window's alert callback,   *)
(* the widget's flash timer counts the alert down.                         *)
(***************************************************************************)
InitAlert == InitMainTab({})

NextAlert ==
    \/ \E id \in WindowIds : add_window(id)
    \/ \E id \in WindowIds : remove_window(id)
    \/ \E id \in WindowIds, level \in Levels : alert_callback(id, level)
    \/ \E id \in WindowIds : flash_tick(id)

SpecAlert == InitAlert /\ [][NextAlert]_vars

(***************************************************************************)
(* The alert of a preview in time: a flash timer times out when its period *)
(* has passed, not before and not later.                                   *)
(***************************************************************************)
InitClock == InitMainTab({})

\* The timed runs follow one preview.
ClockWindows == {"w1"}

NextClock ==
    \/ \E id \in ClockWindows : add_window(id)
    \/ \E id \in ClockWindows, level \in Levels : alert_callback(id, level)
    \/ \E id \in ClockWindows :
         /\ id \in Registered
         /\ preview_frames[id].flash_remaining_ms = 0
         /\ flash_tick(id)
    \/ elapse

SpecClock == InitClock /\ [][NextClock]_vars

(***************************************************************************)
(* One preview's alert under an event loop that runs: a flash timer that   *)
(* is active does time out.                                                *)
(***************************************************************************)
InitDecay == InitMainTab({})

NextDecay ==
    \/ \E id \in ClockWindows : add_window(id)
    \/ \E id \in ClockWindows : remove_window(id)
    \/ \E id \in ClockWindows, level \in Levels : alert_callback(id, level)
    \/ \E id \in ClockWindows : flash_tick(id)

SpecDecayFair ==
    /\ InitDecay
    /\ [][NextDecay]_vars
    /\ \A id \in ClockWindows : WF_vars(flash_tick(id))

\* The capture cycle step by step, with submits that may fail: the registry
\* changes between ticks only, captures complete at any time.
InitTick == InitMainTab({"submit"})

NextTick ==
    \/ \E id \in WindowIds : tick.pc = "idle" /\ add_window(id)
    \/ \E id \in WindowIds : tick.pc = "idle" /\ remove_window(id)
    \/ \E rid \in 1..MaxRid, ok \in BOOLEAN : capture_done(rid, ok)
    \/ tick_begin
    \/ tick_submit
    \/ tick_call_drain
    \/ tick_poll

SpecTick == InitTick /\ [][NextTick]_vars

\* The same with the handler never stalled: the GUI thread keeps running it.
\* Submits fail only once the capture system is full.
InitTickFair == InitMainTab({})

SpecTickFair ==
    /\ InitTickFair
    /\ [][NextTick]_vars
    /\ WF_vars(tick_submit)
    /\ WF_vars(tick_call_drain)
    /\ WF_vars(tick_poll)

\* One window through everything that touches its alert fields: the capture
\* cycle's analysis, the alert detector's callback and the flash timer.
InitLife == InitMainTab({})

NextLife ==
    \/ \E id \in ClockWindows : add_window(id)
    \/ \E id \in ClockWindows : remove_window(id)
    \/ \E id \in ClockWindows, level \in Levels : alert_callback(id, level)
    \/ \E id \in ClockWindows : flash_tick(id)
    \/ \E rid \in 1..MaxRid, ok \in BOOLEAN : capture_done(rid, ok)
    \/ capture_cycle

SpecLife == InitLife /\ [][NextLife]_vars

\* The HotkeyManager alone: registrations, and the keyboard listener's events.
NextHotkey ==
    \/ \E name \in HotkeyNames, combo \in KeyCombos : register_hotkey(name, combo)
    \/ \E name \in HotkeyNames : unregister_hotkey(name)
    \/ \E key \in Keys : on_key_press(key)
    \/ \E key \in Keys : on_key_release(key)

SpecHotkey == Init /\ [][NextHotkey]_vars

\* The ConfigWatcher alone: its operations, file changes and passing time.
NextWatcher ==
    \/ \E watchdog \in BOOLEAN : watcher_start(watchdog)
    \/ watcher_stop
    \/ on_file_changed
    \/ emit_change
    \/ watcher_elapse

SpecWatcher == Init /\ [][NextWatcher]_vars

(***************************************************************************)
(* Properties of the capture timer (SpecRate).                             *)
(***************************************************************************)
\* The last operation armed the timer: start_capture_loop, or the restart
\* inside set_refresh_rate.
Armed ==
    /\ last.timer_calls # <<>>
    /\ last.timer_calls[Len(last.timer_calls)] = "start"

\* round(a / b) as Python 3 computes it: to the nearest integer, a tie to
\* the even one.
RoundDiv(a, b) ==
    LET q == a \div b
        r == a % b
    IN  IF 2 * r < b THEN q
        ELSE IF 2 * r > b THEN q + 1
        ELSE IF q % 2 = 0 THEN q ELSE q + 1

C2_RateClamped ==
    /\ refresh_rate \in 1..60
    /\ last.op = "set_refresh_rate" =>
         refresh_rate = (IF last.fps < 1 THEN 1 ELSE IF last.fps > 60 THEN 60 ELSE last.fps)

\* set_refresh_rate with an fps above the range, stored as 60.
C2_Witness ==
    last.op = "set_refresh_rate" /\ last.fps > 60 /\ refresh_rate = 60

\* C3: a timer running with no set_refresh_rate since construction runs at
\* 30 Hz with a 33 ms interval.
C3_DefaultRate ==
    (timer_active /\ ~rate_was_set) => (refresh_rate = 30 /\ timer_interval = 33)

\* The fresh manager, just started.
C3_Witness ==
    last.op = "start_capture_loop" /\ timer_active /\ ~rate_was_set

\* C4: set_refresh_rate keeps the timer's running status; a running timer
\* is stopped and started with the interval of the new clamped rate, a
\* stopped one is left alone; and whenever the timer runs its interval is
\* the one of the stored rate.
C4_SetRateKeepsStatus ==
    /\ [](timer_active => timer_interval = 1000 \div refresh_rate)
    /\ [][last'.op = "set_refresh_rate" =>
            /\ timer_active' = timer_active
            /\ timer_active =>
                 /\ last'.timer_calls = <<"stop", "start">>
                 /\ timer_interval' = 1000 \div refresh_rate'
            /\ ~timer_active =>
                 /\ last'.timer_calls = <<>>
                 /\ timer_interval' = timer_interval]_vars

\* A running timer re-armed by set_refresh_rate at a rate other than the
\* default.
C4_Witness ==
    /\ last.op = "set_refresh_rate" /\ last.was_active
    /\ timer_active /\ refresh_rate = 60 /\ timer_interval = 16

(***************************************************************************)
(* Properties of the engine (Spec).                                        *)
(***************************************************************************)
programVars == <<refresh_rate, timer_active, timer_interval, preview_frames,
                 frame_order, pending_requests, callbacks, backend_requests,
                 results, next_rid, thumbnails_visible, faults>>

\* C5: stop_capture_loop leaves the timer stopped and the registry, the
\* pending requests, the rate and every widget unchanged; on a stopped
\* timer it changes nothing at all; and a capture cycle only runs while the
\* timer is active, so none runs between a stop and the next start.
C5_StopIdempotent ==
    [][/\ last'.op = "stop_capture_loop" =>
            /\ ~timer_active'
            /\ UNCHANGED <<preview_frames, frame_order, callbacks,
                           pending_requests, refresh_rate>>
            /\ ~timer_active => UNCHANGED programVars
       /\ last'.op = "capture_cycle" => timer_active]_vars

\* stop_capture_loop on a stopped timer, with a widget registered and a
\* request pending.
C5_Witness ==
    /\ last.op = "stop_capture_loop" /\ ~last.was_active /\ ~timer_active
    /\ Registered # {} /\ DOMAIN pending_requests # {}

\* C6: add_window of a registered id returns None without raising, leaves
\* the registry (size, the widget's frame, alert state, visibility) as it
\* was and registers no callback.
C6_DuplicateAddRejected ==
    [][(last'.op = "add_window" /\ last'.id \in Registered) =>
          /\ last'.ret = None
          /\ ~last'.raised
          /\ last'.registered = <<>>
          /\ UNCHANGED <<preview_frames, frame_order, callbacks>>]_vars

\* A rejected add_window of a window that already shows a frame and an alert.
C6_Witness ==
    /\ last.op = "add_window" /\ last.ret = None
    /\ last.id \in Registered
    /\ preview_frames[last.id].current_pixmap # NoImage
    /\ preview_frames[last.id].alert_level # None

\* C7: add_window of an unregistered id returns the new widget, grows the
\* registry by exactly that id, creates the widget with no alert level, a
\* zero flash counter, an idle flash timer and no frame, and registers
\* exactly one alert callback, for that id.
C7_AddCreatesTarget ==
    [][(last'.op = "add_window" /\ last'.id \notin Registered) =>
          /\ last'.ret = last'.id
          /\ Registered' = Registered \cup {last'.id}
          /\ Cardinality(Registered') = Cardinality(Registered) + 1
          /\ \A x \in Registered : preview_frames'[x] = preview_frames[x]
          /\ preview_frames'[last'.id].alert_level = None
          /\ preview_frames'[last'.id].alert_flash_counter = 0
          /\ ~preview_frames'[last'.id].flash_active
          /\ preview_frames'[last'.id].current_pixmap = NoImage
          /\ last'.registered = <<last'.id>>
          /\ callbacks' = callbacks \cup {last'.id}
          /\ last'.id \notin callbacks]_vars

\* A second window added next to one that shows a frame.
C7_Witness ==
    /\ last.op = "add_window" /\ last.ret = last.id
    /\ Cardinality(Registered) = 2
    /\ \E x \in Registered : preview_frames[x].current_pixmap # NoImage

\* C8: remove_window of an unregistered id does not raise, unregisters
\* nothing and leaves registry, callbacks and pending requests unchanged.
C8_RemoveAbsentNoop ==
    [][(last'.op = "remove_window" /\ last'.id \notin Registered) =>
          /\ ~last'.raised
          /\ last'.unregistered = <<>>
          /\ UNCHANGED programVars]_vars

\* A no-op remove_window of an id that pending requests still name.
C8_Witness ==
    /\ last.op = "remove_window" /\ last.unregistered = <<>>
    /\ last.id \notin Registered
    /\ Registered # {}
    /\ \E r \in DOMAIN pending_requests : pending_requests[r] = last.id

\* C9: remove_window of a registered id unregisters that id's callback
\* once, removes exactly that widget, and leaves every pending request,
\* every other widget and the capture system untouched.
C9_RemoveUnsubscribes ==
    [][(last'.op = "remove_window" /\ last'.id \in Registered) =>
          /\ ~last'.raised
          /\ last'.unregistered = <<last'.id>>
          /\ callbacks' = callbacks \ {last'.id}
          /\ Registered' = Registered \ {last'.id}
          /\ \A x \in Registered' : preview_frames'[x] = preview_frames[x]
          /\ UNCHANGED <<pending_requests, backend_requests, results, next_rid>>]_vars

\* A window removed while one of its requests is pending and another
\* window stays registered.
C9_Witness ==
    /\ last.op = "remove_window" /\ last.unregistered = <<last.id>>
    /\ Registered # {}
    /\ \E r \in DOMAIN pending_requests : pending_requests[r] = last.id

\* C10: in a capture cycle, a polled result whose window is not registered
\* is dropped: update_frame and analyze_frame are not called for it, no
\* alert is set, its pending entry is gone afterwards, the cycle does not
\* raise, and a widget that got no result of its own is left as it was.
C10_OrphanDropped ==
    [][last'.op = "capture_cycle" =>
          /\ ~last'.raised
          /\ Registered' = Registered
          /\ Len(last'.drain) = Len(results)
          /\ \A i \in 1..Len(results) :
               /\ last'.drain[i].request_id = results[i].request_id
               /\ last'.drain[i].window_id = results[i].window_id
               /\ results[i].window_id \notin Registered =>
                    /\ ~last'.drain[i].update_frame
                    /\ ~last'.drain[i].analyze_frame
                    /\ last'.drain[i].set_alert = None
                    /\ results[i].request_id \notin DOMAIN pending_requests'
          /\ \A x \in Registered :
               (\A i \in 1..Len(results) : results[i].window_id # x) =>
                  preview_frames'[x] = preview_frames[x]]_vars

\* A cycle that polled a result of a removed window and delivered another
\* result to a registered one.
C10_Witness ==
    /\ last.op = "capture_cycle"
    /\ \E i \in 1..Len(last.drain) : last.drain[i].window_id \notin Registered
    /\ \E i \in 1..Len(last.drain) : last.drain[i].update_frame
    /\ pending_requests = <<>>


(***************************************************************************)
(* C11: get_active_window_count is the number of registered windows.  A    *)
(* capture cycle, a finished capture and a visibility toggle leave it      *)
(* alone, whatever is pending or queued; only an add_window that creates a *)
(* window raises it, by one, and only a remove_window of a present id      *)
(* lowers it, by one.                                                      *)
(***************************************************************************)
C11_CountFollowsRegistry ==
    [][LET before == get_active_window_count
           after == get_active_window_count'
       IN  /\ after = Len(frame_order')
           /\ last'.op = "add_window" =>
                 after = IF last'.id \in Registered THEN before ELSE before + 1
           /\ last'.op = "remove_window" =>
                 after = IF last'.id \in Registered THEN before - 1 ELSE before
           /\ last'.op \in {"capture_cycle", "capture_done",
                            "toggle_thumbnails_visibility"} => after = before]_vars

\* Two windows registered and hidden, a request pending and a result queued.
C11_Witness ==
    /\ last.op = "toggle_thumbnails_visibility"
    /\ ~thumbnails_visible
    /\ get_active_window_count = 2
    /\ DOMAIN pending_requests # {}
    /\ results # <<>>
    /\ Cardinality(DOMAIN pending_requests) # get_active_window_count

(***************************************************************************)
(* C12: a capture cycle calls capture_window_async exactly once, with the  *)
(* window's zoom factor, for every registered window that is visible, and  *)
(* not at all for a hidden one, however many earlier requests of the       *)
(* window are still pending.                                               *)
(***************************************************************************)
C12_OneSubmitPerVisible ==
    [][last'.op = "capture_cycle" =>
         LET subs == last'.submits
             calls(x) == {i \in DOMAIN subs : subs[i].window_id = x}
         IN  /\ \A i \in DOMAIN subs : subs[i].window_id \in Registered
             /\ \A x \in Registered :
                   /\ Cardinality(calls(x)) = IF preview_frames[x].visible THEN 1 ELSE 0
                   /\ \A i \in calls(x) : subs[i].scale = preview_frames[x].zoom_factor]_vars

\* A cycle that submitted for a visible window which already had a request
\* pending, and did not submit for the hidden window beside it.
C12_Witness ==
    /\ last.op = "capture_cycle"
    /\ \E x \in Registered, y \in Registered :
          /\ preview_frames[x].visible
          /\ ~preview_frames[y].visible
          /\ Len(last.submits) = 1
          /\ last.submits[1].window_id = x
          /\ last.submits[1].request_id # NoImage
          /\ Cardinality({r \in DOMAIN pending_requests : pending_requests[r] = x}) = 2


(***************************************************************************)
(* C13: when capture_window_async raises for one window, the cycle records *)
(* no pending request for that window, still submits for every other       *)
(* visible window and records their requests, and still drains the         *)
(* results; a cycle that follows submits for the window again if it is     *)
(* still visible.                                                          *)
(***************************************************************************)
C13_SubmitFailureContained ==
    [][last'.op = "capture_cycle" =>
         LET subs == last'.submits
             fresh == (DOMAIN pending_requests') \ (DOMAIN pending_requests)
             shown == {x \in Registered : preview_frames[x].visible}
         IN  /\ {subs[i].window_id : i \in DOMAIN subs} = shown
             /\ \A i \in DOMAIN subs :
                   IF subs[i].request_id = NoImage
                   THEN \A r \in fresh : pending_requests'[r] # subs[i].window_id
                   ELSE /\ subs[i].request_id \in fresh
                        /\ pending_requests'[subs[i].request_id] = subs[i].window_id
             /\ last'.polls = Len(results) + 1
             /\ Len(last'.drain) = Len(results)
             /\ results' = <<>>
             /\ last.op = "capture_cycle" =>
                   \A j \in DOMAIN last.submits :
                     (/\ last.submits[j].request_id = NoImage
                      /\ last.submits[j].window_id \in shown)
                     => \E i \in DOMAIN subs :
                          subs[i].window_id = last.submits[j].window_id]_vars

\* A cycle whose first submission was refused and whose second was taken
\* and recorded, with a result drained in the same cycle.
C13_Witness ==
    /\ last.op = "capture_cycle"
    /\ Len(last.submits) = 2
    /\ last.submits[1].request_id = NoImage
    /\ last.submits[2].request_id \in DOMAIN pending_requests
    /\ \A r \in DOMAIN pending_requests :
          pending_requests[r] # last.submits[1].window_id
    /\ Len(last.drain) >= 1


(***************************************************************************)
(* C14: with K results queued, _process_capture_results calls get_result   *)
(* K + 1 times, handles each of the K results once and in order, and       *)
(* returns with the queue empty, whether a result carries an image or an   *)
(* error, belongs to a removed window, or makes a callee raise.            *)
(***************************************************************************)
C14_DrainPollsAllPlusOne ==
    [][last'.op = "capture_cycle" =>
         /\ last'.polls = Len(results) + 1
         /\ DOMAIN last'.drain = DOMAIN results
         /\ \A i \in DOMAIN results :
               /\ last'.drain[i].request_id = results[i].request_id
               /\ last'.drain[i].window_id = results[i].window_id
         /\ results' = <<>>]_vars

\* A drain of two results, one of a removed window and one whose handling
\* raised, done in three polls.
C14_Witness ==
    /\ last.op = "capture_cycle"
    /\ last.polls = 3
    /\ \E i, j \in DOMAIN last.drain :
          /\ ~last.drain[i].update_frame
          /\ last.drain[j].caught # {}
    /\ results = <<>>


(***************************************************************************)
(* C15: a polled result is handed to a window only if pending_requests     *)
(* holds its request id, and only to the window recorded there; a result   *)
(* whose request id is not pending is not delivered.                       *)
(***************************************************************************)
C15_DeliveredOnlyIfPending ==
    [][last'.op = "capture_cycle" =>
         \A i \in DOMAIN last'.drain :
           last'.drain[i].update_frame =>
             last'.drain[i].popped = last'.drain[i].window_id]_vars

(***************************************************************************)
(* C16: recording a request id that pending_requests already holds does    *)
(* not silently replace the window recorded for it: the entry keeps its    *)
(* window, or the cycle reports the duplicate.                             *)
(***************************************************************************)
C16_DuplicateNotOverwritten ==
    [][last'.op = "capture_cycle" =>
         \A i \in DOMAIN last'.submits :
           LET r == last'.submits[i].request_id
           IN  (r \in DOMAIN pending_requests /\ r \in DOMAIN pending_requests')
               => \/ pending_requests'[r] = pending_requests[r]
                  \/ last'.raised]_vars


(***************************************************************************)
(* C17: when update_frame raises for one result, the drain goes on: every  *)
(* later result of the queue is still polled and, if its window is         *)
(* registered, handed to update_frame, the last frame that was stored for  *)
(* a window is the pixmap the window shows, and the pending entry of the   *)
(* result that failed is removed like any other.                           *)
(***************************************************************************)
C17_ConsumerFailureContained ==
    [][last'.op = "capture_cycle" =>
         LET log == last'.drain
         IN  \A i \in DOMAIN log :
               "update_frame" \in log[i].caught =>
                 /\ log[i].request_id \notin DOMAIN pending_requests'
                 /\ DOMAIN log = DOMAIN results
                 /\ \A j \in DOMAIN results :
                       j > i =>
                         /\ log[j].request_id = results[j].request_id
                         /\ log[j].update_frame = (results[j].window_id \in Registered)
                         /\ results[j].request_id \notin DOMAIN pending_requests'
                         /\ (/\ log[j].update_frame
                             /\ "update_frame" \notin log[j].caught
                             /\ \A k \in DOMAIN results :
                                   k > j => results[k].window_id # results[j].window_id)
                            => preview_frames'[results[j].window_id].current_pixmap
                                 = results[j].image]_vars

\* A drain whose first result had an image that update_frame failed to
\* convert, and whose second result was stored in another window.
C17_Witness ==
    /\ last.op = "capture_cycle"
    /\ Len(last.drain) = 2
    /\ last.drain[1].analyze_frame
    /\ "update_frame" \in last.drain[1].caught
    /\ last.drain[2].update_frame
    /\ last.drain[2].caught = {}
    /\ last.drain[2].window_id # last.drain[1].window_id
    /\ preview_frames[last.drain[2].window_id].current_pixmap = last.drain[2].request_id
    /\ last.drain[1].request_id \notin DOMAIN pending_requests


(***************************************************************************)
(* C18: every result that carries an image for a registered window has     *)
(* analyze_frame called on it, whether or not update_frame failed on it.   *)
(* When analyze_frame raises, the exception is caught, no alert is set for *)
(* that result (a window with no alert set in the drain keeps its alert    *)
(* as it was), and the results after it are handled as usual.              *)
(***************************************************************************)
C18_AnalysisAlwaysRunsAndIsContained ==
    [][last'.op = "capture_cycle" =>
         LET log == last'.drain
             wanted(i) == /\ results[i].image # NoImage
                          /\ results[i].window_id \in Registered
         IN  /\ DOMAIN log = DOMAIN results
             /\ \A i \in DOMAIN results : log[i].analyze_frame = wanted(i)
             /\ \A i \in DOMAIN results :
                   "analyze_frame" \in log[i].caught =>
                     /\ log[i].set_alert = None
                     /\ ~last'.raised
                     /\ log[i].request_id \notin DOMAIN pending_requests'
             /\ \A x \in Registered :
                   (\A i \in DOMAIN results :
                      results[i].window_id = x => log[i].set_alert = None)
                   => AlertOf(preview_frames'[x]) = AlertOf(preview_frames[x])]_vars

\* A drain whose first result failed to convert and was analysed all the
\* same, the analysis raising, and whose second result raised an alert on
\* another window; the first window shows no alert.
C18_Witness ==
    /\ last.op = "capture_cycle"
    /\ Len(last.drain) = 2
    /\ last.drain[1].analyze_frame
    /\ last.drain[1].caught = {"update_frame", "analyze_frame"}
    /\ last.drain[2].analyze_frame
    /\ last.drain[2].set_alert \in Levels
    /\ last.drain[2].window_id # last.drain[1].window_id
    /\ preview_frames[last.drain[1].window_id].alert_level = None
    /\ preview_frames[last.drain[2].window_id].alert_level = last.drain[2].set_alert


(***************************************************************************)
(* C19: a result that reports a capture error (no image) for a registered  *)
(* window does not reach analyze_frame and sets no alert; a window whose   *)
(* results in a drain are all errors keeps its pixmap and its alert.       *)
(***************************************************************************)
C19_CaptureErrorChangesNothing ==
    [][last'.op = "capture_cycle" =>
         LET log == last'.drain
             of(x) == {i \in DOMAIN results : results[i].window_id = x}
         IN  /\ DOMAIN log = DOMAIN results
             /\ \A i \in DOMAIN results :
                   results[i].image = NoImage =>
                     /\ ~log[i].analyze_frame
                     /\ log[i].set_alert = None
             /\ \A x \in Registered :
                   (\A i \in of(x) : results[i].image = NoImage) =>
                     /\ preview_frames'[x].current_pixmap = preview_frames[x].current_pixmap
                     /\ AlertOf(preview_frames'[x]) = AlertOf(preview_frames[x])]_vars

\* A window that shows a frame and an alert, after a drain that handled a
\* capture error for it.
C19_Witness ==
    /\ last.op = "capture_cycle"
    /\ Len(last.drain) = 1
    /\ last.drain[1].update_frame
    /\ ~last.drain[1].analyze_frame
    /\ last.drain[1].window_id \in Registered
    /\ preview_frames[last.drain[1].window_id].current_pixmap # NoImage
    /\ preview_frames[last.drain[1].window_id].alert_level \in Levels


(***************************************************************************)
(* C20: an alert of any level, on a window that shows no alert or any      *)
(* alert with any time left, makes the window show that level for the full *)
(* 3000 ms (30 flashes of 100 ms) with its flash timer running: the level  *)
(* replaces the one shown, a higher one included, and the time starts from *)
(* full, never added to what was left.  No other window changes.           *)
(***************************************************************************)
C20_AlertRestartsInFull ==
    [][(last'.op = "alert_callback" /\ last'.id \in Registered) =>
         LET w == preview_frames'[last'.id]
         IN  /\ w.alert_level = last'.ret
             /\ w.alert_flash_counter = FlashTicks
             /\ w.alert_flash_counter * FlashPeriodMs = 3000
             /\ w.flash_active
             /\ \A x \in Registered \ {last'.id} :
                   preview_frames'[x] = preview_frames[x]]_vars

\* A LOW alert on a window that showed a HIGH one with part of its time
\* gone: it shows LOW, with the full time left.
C20_Witness ==
    /\ last.op = "alert_callback"
    /\ last.ret = "LOW"
    /\ last.before # <<>>
    /\ last.before[1] = "HIGH"
    /\ last.before[2] \in 1..(FlashTicks - 1)
    /\ last.before[3]
    /\ preview_frames[last.id].alert_level = "LOW"
    /\ preview_frames[last.id].alert_flash_counter = FlashTicks


(***************************************************************************)
(* C21: while a window's alert is active each flash tick takes exactly one *)
(* tick (100 ms) off the time left; the time left is never negative; the   *)
(* tick that brings it to zero clears the alert level and stops the flash  *)
(* timer; a window without an alert never ticks and is changed by no       *)
(* other window's tick.                                                    *)
(***************************************************************************)
C21_TickInvariant ==
    \A x \in Registered :
      LET w == preview_frames[x]
      IN  /\ w.alert_flash_counter \in 0..FlashTicks
          /\ w.flash_active <=> w.alert_flash_counter > 0
          /\ w.flash_active <=> w.alert_level \in Levels
          /\ ~w.flash_active <=> w.alert_level = None

C21_DecayByOneTick ==
    /\ []C21_TickInvariant
    /\ [][last'.op = "flash_tick" =>
            LET w == preview_frames[last'.id]
                v == preview_frames'[last'.id]
            IN  /\ w.flash_active
                /\ v.alert_flash_counter * FlashPeriodMs
                      = w.alert_flash_counter * FlashPeriodMs - FlashPeriodMs
                /\ IF v.alert_flash_counter = 0
                   THEN v.alert_level = None /\ ~v.flash_active
                   ELSE v.alert_level = w.alert_level /\ v.flash_active
                /\ \A x \in Registered \ {last'.id} :
                      preview_frames'[x] = preview_frames[x]]_vars

\* The tick that ended an alert: nothing left, no level, timer stopped,
\* beside a window that shows no alert.
C21_Witness ==
    /\ last.op = "flash_tick"
    /\ last.before[2] = 1
    /\ last.before[1] \in Levels
    /\ preview_frames[last.id].alert_flash_counter = 0
    /\ preview_frames[last.id].alert_level = None
    /\ ~preview_frames[last.id].flash_active
    /\ \E x \in Registered \ {last.id} : ~preview_frames[x].flash_active


(***************************************************************************)
(* C22: a window's alert ends exactly 3000 ms after the latest set_alert,  *)
(* wherever in the flash timer's period that call fell.                    *)
(***************************************************************************)
C22_EndsAfterExactly3000 ==
    [][(/\ last'.op = "flash_tick"
        /\ ~preview_frames'[last'.id].flash_active)
       => preview_frames'[last'.id].alert_age_ms = 3000]_vars


Alerted(x) == x \in Registered /\ preview_frames[x].flash_active

AlertedAgain(x) == last.op = "alert_callback" /\ last.id = x

C24_AlertEndsOnceAndEventually ==
    /\ [][/\ \A x \in Registered \cap Registered' :
              (Alerted(x) /\ ~Alerted(x)')
              => last'.op = "flash_tick" /\ last'.id = x /\ last'.ret = None
          /\ (last'.op = "flash_tick" /\ last'.ret = None)
              => /\ Alerted(last'.id)
                 /\ ~preview_frames'[last'.id].flash_active]_vars
    /\ \A x \in WindowIds :
          (<>[]~AlertedAgain(x)) => (Alerted(x) ~> ~Alerted(x))

\* The tick that ended a HIGH alert: the window is repainted without a level.
C24_Witness ==
    /\ last.op = "flash_tick"
    /\ last.ret = None
    /\ last.before = <<"HIGH", 1, TRUE>>
    /\ last.id \in Registered
    /\ ~preview_frames[last.id].flash_active
    /\ preview_frames[last.id].alert_flash_counter = 0


(***************************************************************************)
(* C25: after a drain a window's pixmap is the image of the last result    *)
(* polled for it that carried an image, in whatever order its requests     *)
(* were submitted; a window for which no image was polled keeps its        *)
(* pixmap.                                                                 *)
(***************************************************************************)
C25_LastResolvedWins ==
    [][last'.op = "capture_cycle" =>
         \A x \in Registered :
           LET frames == {i \in DOMAIN results :
                            results[i].window_id = x /\ results[i].image # NoImage}
               latest == CHOOSE i \in frames : \A j \in frames : j <= i
           IN  preview_frames'[x].current_pixmap =
                 IF frames = {}
                 THEN preview_frames[x].current_pixmap
                 ELSE results[latest].image]_vars

\* A drain that polled the second request of a window before its first:
\* the window shows the image of the first.
C25_Witness ==
    /\ last.op = "capture_cycle"
    /\ Len(last.drain) = 2
    /\ last.drain[1].window_id = last.drain[2].window_id
    /\ last.drain[1].request_id > last.drain[2].request_id
    /\ last.drain[1].analyze_frame
    /\ last.drain[2].analyze_frame
    /\ preview_frames[last.drain[2].window_id].current_pixmap = last.drain[2].request_id


(***************************************************************************)
(* C26: whatever fails in a capture cycle (submissions refused, captures   *)
(* failed, update_frame or analyze_frame raising), no exception leaves the *)
(* cycle and the capture timer stays active with its interval; the cycle,  *)
(* and the cycle after such a cycle, submits for every visible window and  *)
(* drains every queued result.                                             *)
(***************************************************************************)
Troubled(l) ==
    /\ l.op = "capture_cycle"
    /\ \/ \E i \in DOMAIN l.submits : l.submits[i].request_id = NoImage
       \/ \E i \in DOMAIN l.drain : l.drain[i].caught # {}

C26_NoFailureIsFatal ==
    [][last'.op = "capture_cycle" =>
         LET shown == {x \in Registered : preview_frames[x].visible}
             full == /\ {last'.submits[i].window_id : i \in DOMAIN last'.submits} = shown
                     /\ Len(last'.submits) = Cardinality(shown)
                     /\ DOMAIN last'.drain = DOMAIN results
                     /\ \A i \in DOMAIN results :
                           last'.drain[i].request_id = results[i].request_id
                     /\ last'.polls = Len(results) + 1
                     /\ results' = <<>>
         IN  /\ ~last'.raised
             /\ timer_active'
             /\ timer_interval' = timer_interval
             /\ full
             /\ Troubled(last) => full]_vars

\* A cycle in which a submission was refused, a capture had failed, and a
\* frame failed to convert and its analysis raised; the timer is active.
C26_Witness ==
    /\ Troubled(last)
    /\ \E i \in DOMAIN last.submits : last.submits[i].request_id = NoImage
    /\ \E i, j \in DOMAIN last.drain :
          /\ last.drain[i].update_frame
          /\ ~last.drain[i].analyze_frame
          /\ last.drain[j].caught = {"update_frame", "analyze_frame"}
    /\ timer_active
    /\ results = <<>>


(***************************************************************************)
(* C27: at every moment, whatever add_window, remove_window and capture    *)
(* cycles came before, the windows with an alert callback registered are   *)
(* exactly the registered windows; and the callback of a removed window,   *)
(* when it is still called, changes no window.                             *)
(***************************************************************************)
C27_SubscriptionsMatchRegistry ==
    /\ [](callbacks = Registered)
    /\ [][last'.op \in {"add_window", "remove_window"} =>
            /\ callbacks' = Registered'
            /\ callbacks' \ callbacks = SeqToSet(last'.registered)
            /\ callbacks \ callbacks' = SeqToSet(last'.unregistered)]_vars
    /\ [][last'.op = "stale_alert_callback" => preview_frames' = preview_frames]_vars

\* The callback of a window that was removed with a request pending, called
\* while another window is registered.
C27_Witness ==
    /\ last.op = "stale_alert_callback"
    /\ last.id \notin Registered
    /\ \E r \in DOMAIN pending_requests : pending_requests[r] = last.id
    /\ Registered # {}
    /\ callbacks = Registered


(***************************************************************************)
(* C28: update_frame is called at most once for a polled result, and only  *)
(* for a result that carries a captured image; so a drain never makes more *)
(* calls for a window than it polled results for it.                       *)
(***************************************************************************)
C28_FrameOnlyForCapturedImage ==
    [][last'.op = "capture_cycle" =>
         /\ DOMAIN last'.drain = DOMAIN results
         /\ \A i \in DOMAIN results :
               last'.drain[i].update_frame =>
                 /\ last'.drain[i].window_id = results[i].window_id
                 /\ results[i].image # NoImage]_vars

\* A combination made of one key that is not a modifier.
PlainSingleKey(combo) == Len(combo) = 1 /\ combo[1] \notin Modifiers
InSingleKeyHotkeys(hm, combo) ==
    Len(combo) = 1 /\ combo[1] \in DOMAIN hm.single_key_hotkeys
InComboHotkeys(hm, combo) == combo \in DOMAIN hm.combo_hotkeys

\* Every registered name has its combination in exactly one dictionary, the
\* one its shape selects, under its own name.
Bookkept(hm) ==
    \A n \in DOMAIN hm.hotkeys :
        LET combo == hm.hotkeys[n]
        IN  IF PlainSingleKey(combo)
            THEN /\ InSingleKeyHotkeys(hm, combo)
                 /\ hm.single_key_hotkeys[combo[1]] = n
                 /\ ~InComboHotkeys(hm, combo)
            ELSE /\ InComboHotkeys(hm, combo)
                 /\ hm.combo_hotkeys[combo] = n
                 /\ ~InSingleKeyHotkeys(hm, combo)

SingleKeyMatches(key) ==
    {n \in DOMAIN hotkey_manager.hotkeys :
        key \notin Modifiers /\ hotkey_manager.hotkeys[n] = <<key>>}

\* C30: pressing a modifier adds it to pressed_modifiers and releasing it
\* removes it; a key press calls the callback of a registered single-key
\* hotkey exactly once if and only if the key is that hotkey's key and no
\* modifier is held at the press; any other press calls no callback.
C30_KeyHandling ==
    [][/\ (last'.op = "on_key_press" /\ last'.key \in Modifiers) =>
              hotkey_manager'.pressed_modifiers =
                  hotkey_manager.pressed_modifiers \cup {last'.key}
       /\ (last'.op = "on_key_release" /\ last'.key \in Modifiers) =>
              hotkey_manager'.pressed_modifiers =
                  hotkey_manager.pressed_modifiers \ {last'.key}
       /\ last'.op = "on_key_press" =>
              IF /\ SingleKeyMatches(last'.key) # {}
                 /\ hotkey_manager.pressed_modifiers = {}
              THEN \E n \in SingleKeyMatches(last'.key) :
                      last'.callbacks_called = <<n>>
              ELSE last'.callbacks_called = <<>>]_vars

\* A single-key hotkey fired while a combination on the same key is
\* registered too.
C30_Witness ==
    /\ last.op = "on_key_press"
    /\ last.callbacks_called # <<>>
    /\ \E n \in DOMAIN hotkey_manager.hotkeys :
          /\ Len(hotkey_manager.hotkeys[n]) > 1
          /\ hotkey_manager.hotkeys[n][Len(hotkey_manager.hotkeys[n])] = last.key

InFlight ==
    (DOMAIN backend_requests)
        \cup {results[i].request_id : i \in 1..Len(results)}

PendingIsInFlight ==
    /\ DOMAIN pending_requests = InFlight
    /\ \A r \in DOMAIN backend_requests :
          pending_requests[r] = backend_requests[r]
    /\ \A i \in 1..Len(results) :
          pending_requests[results[i].request_id] = results[i].window_id

\* C32: with request ids the capture system never repeats, pending_requests
\* holds exactly the ids of the accepted submits whose results were not
\* polled yet, each mapped to the window it was submitted for, a window
\* registered when it was submitted; a polled result's entry is removed
\* whether it was delivered, reported a capture error, had no registered
\* window, or its processing raised.
C32_PendingIsExactlyInFlight ==
    [][/\ PendingIsInFlight'
       /\ last'.op = "capture_cycle" =>
            /\ \A i \in 1..Len(last'.drain) :
                  /\ last'.drain[i].request_id \notin DOMAIN pending_requests'
                  /\ last'.drain[i].popped = last'.drain[i].window_id
            /\ \A i \in 1..Len(last'.submits) :
                  last'.submits[i].request_id # NoImage =>
                     /\ last'.submits[i].window_id \in Registered
                     /\ last'.submits[i].request_id \notin DOMAIN pending_requests
                     /\ pending_requests'[last'.submits[i].request_id]
                          = last'.submits[i].window_id]_vars

\* A tick polled a result whose processing raised and left a request of
\* this tick pending, for a window that is registered.
C32_Witness ==
    /\ last.op = "capture_cycle"
    /\ \E i \in 1..Len(last.drain) : last.drain[i].caught # {}
    /\ \E r \in DOMAIN pending_requests : pending_requests[r] \in Registered

\* C33: a result of a request submitted before its window was removed is
\* not delivered to the window registered again under the same id: the tick
\* after the second add_window makes no update_frame, analyze_frame or
\* set_alert call for it.
C33_RemovalCancelsDelivery ==
    [][(last.op = "add_window" /\ last'.op = "capture_cycle") =>
         \A i \in 1..Len(last'.drain) :
            last'.drain[i].request_id \in last.stale =>
               /\ ~last'.drain[i].update_frame
               /\ ~last'.drain[i].analyze_frame
               /\ last'.drain[i].set_alert = None]_vars

\* Within the tick so far, no submit comes after a poll.
SubmitsBeforePolls(t) ==
    \A i, j \in 1..Len(t.events) :
        (i < j /\ t.events[i].kind = "poll") => t.events[j].kind = "poll"

\* C34: within a tick every submit comes before the first poll; the drain is
\* called exactly once per tick, after the for loop has visited every frame,
\* also when nothing was visible or every submit failed; a result may be
\* delivered in the tick that submitted its request.
C34_SubmitsThenOneDrain ==
    [][/\ SubmitsBeforePolls(tick')
       /\ tick'.pc = "submit" => tick'.drains = 0
       /\ tick'.pc = "drain" => (tick'.drains = 1 /\ tick'.todo = <<>>)
       /\ (tick.pc # "idle" /\ tick'.pc = "idle") =>
             /\ tick'.drains = 1
             /\ tick.pc = "drain"
             /\ tick'.events[Len(tick'.events)].kind = "poll"]_vars

\* A finished tick polled the result of a request it had submitted itself.
C34_Witness ==
    /\ tick.pc = "idle"
    /\ \E i, j \in 1..Len(tick.events) :
          /\ i < j
          /\ tick.events[i].kind = "submit"
          /\ tick.events[j].kind = "poll"
          /\ tick.events[i].request_id # NoImage
          /\ tick.events[i].request_id = tick.events[j].request_id
          /\ preview_frames[tick.events[j].window_id].current_pixmap
               = tick.events[j].request_id

\* C35: every tick terminates: it makes at most one submit attempt per
\* registered window, its drain ends at the first poll that returns
\* nothing, and it ends without waiting for the requests still unresolved.
C35_TickTerminates ==
    /\ [](/\ \A i, j \in 1..Len(tick.events) :
               (i # j /\ tick.events[i].kind = "submit"
                      /\ tick.events[j].kind = "submit")
                  => tick.events[i].window_id # tick.events[j].window_id
          /\ \A i \in 1..Len(tick.events) :
               (tick.pc # "idle" /\ tick.events[i].kind = "submit")
                  => tick.events[i].window_id \in Registered
          /\ \A i \in 1..Len(tick.events) :
               (tick.events[i].kind = "poll"
                  /\ tick.events[i].request_id = NoImage)
                  => (i = Len(tick.events) /\ tick.pc = "idle"))
    /\ (tick.pc # "idle") ~> (tick.pc = "idle")

\* A tick has ended while a request it submitted is still being captured.
C35_Witness ==
    /\ tick.pc = "idle"
    /\ \E i \in 1..Len(tick.events) :
          /\ tick.events[i].kind = "submit"
          /\ tick.events[i].request_id \in DOMAIN backend_requests
    /\ \E i \in 1..Len(tick.events) :
          /\ tick.events[i].kind = "poll"
          /\ tick.events[i].request_id # NoImage

\* The windows a tick delivered a result to.
Delivered(log) == {log[i].window_id : i \in {j \in 1..Len(log) : log[j].update_frame}}

\* C36: a tick leaves the registered windows, the alert callbacks, every
\* window's visibility and zoom, the stored rate and the timer as they
\* were; it adds pending entries for its submits, removes those of the
\* results it polled, and changes the frame and the alert state only of
\* windows it delivered a result to.
C36_TickFrame ==
    [][last'.op = "capture_cycle" =>
         /\ DOMAIN preview_frames' = DOMAIN preview_frames
         /\ UNCHANGED <<frame_order, callbacks, thumbnails_visible,
                        refresh_rate, timer_active, timer_interval>>
         /\ \A w \in Registered :
               /\ preview_frames'[w].visible = preview_frames[w].visible
               /\ preview_frames'[w].zoom_factor = preview_frames[w].zoom_factor
               /\ w \notin Delivered(last'.drain) =>
                     preview_frames'[w] = preview_frames[w]
         /\ DOMAIN pending_requests' =
              ((DOMAIN pending_requests)
                  \cup {last'.submits[i].request_id : i \in 1..Len(last'.submits)})
              \ ({NoImage}
                  \cup {last'.drain[i].request_id : i \in 1..Len(last'.drain)})
         /\ \A r \in (DOMAIN pending_requests') \cap (DOMAIN pending_requests) :
               pending_requests'[r] = pending_requests[r]]_vars

\* A tick delivered a frame to one window while another, hidden one kept
\* its state, and both a submit and a poll changed pending_requests.
C36_Witness ==
    /\ last.op = "capture_cycle"
    /\ Delivered(last.drain) # {}
    /\ Registered \ Delivered(last.drain) # {}
    /\ \E w \in Registered : ~preview_frames[w].visible
    /\ \E i \in 1..Len(last.submits) : last.submits[i].request_id # NoImage

\* C37: a polled result that reports a capture error never reaches the
\* window's update_frame: update_frame is called only with a captured image.
C37_ErrorResultSkipsConsumer ==
    [][(last'.op = "tick_poll" /\ results # <<>>
          /\ Head(results).image = NoImage) =>
         \A i \in 1..Len(last'.drain) : ~last'.drain[i].update_frame]_vars

\* C38: in every reachable state each window's alert fields agree: the flash
\* counter is in 0..30, and it is above zero exactly when a level is set and
\* exactly when the flash timer runs; no window keeps a level with the timer
\* stopped.
C38_AlertFieldsConsistent ==
    \A x \in Registered :
        /\ preview_frames[x].alert_flash_counter \in 0..FlashTicks
        /\ (preview_frames[x].alert_flash_counter > 0)
              = (preview_frames[x].alert_level # None)
        /\ (preview_frames[x].alert_level # None)
              = preview_frames[x].flash_active
        /\ preview_frames[x].alert_level \in Levels \cup {None}

\* An alert raised by a capture cycle's analysis is part-way through its
\* decay.
C38_Witness ==
    /\ last.op = "flash_tick"
    /\ \E x \in Registered :
          /\ preview_frames[x].alert_level \in Levels
          /\ preview_frames[x].alert_flash_counter \in 1..(FlashTicks - 2)
          /\ preview_frames[x].current_pixmap # NoImage

\* The windows a tick made a submit attempt for.
Submitted(subs) == {subs[i].window_id : i \in 1..Len(subs)}

\* C39 as stated: while the thumbnails flag is false every registered window
\* is hidden and no tick submits anything, also for windows added after
\* hiding; two consecutive toggles restore every window's visibility.
C39_HiddenMeansNoCapture ==
    [][/\ ~thumbnails_visible' =>
             \A w \in Registered' : ~preview_frames'[w].visible
       /\ (last'.op = "capture_cycle" /\ ~thumbnails_visible) =>
             last'.submits = <<>>
       /\ (last.op = "toggle_thumbnails_visibility"
             /\ last'.op = "toggle_thumbnails_visibility") =>
             \A w \in Registered :
                preview_frames'[w].visible = last.before[2][w]]_vars

\* C39, amended: a toggle flips the flag and sets every registered window's
\* visibility to it; add_window makes a visible window whatever the flag,
\* so a window may be visible while the flag is false but never hidden
\* while it is true; a tick submits for exactly the visible windows, those
\* added after hiding included; two consecutive toggles restore the
\* visibility of every window that agreed with the flag before them.
C39_ToggleSetsAddShows ==
    [][/\ \A w \in Registered' :
             preview_frames'[w].visible # thumbnails_visible' =>
                (preview_frames'[w].visible /\ ~thumbnails_visible')
       /\ last'.op = "toggle_thumbnails_visibility" =>
             /\ thumbnails_visible' = ~thumbnails_visible
             /\ Registered' = Registered
             /\ \A w \in Registered :
                   preview_frames'[w].visible = thumbnails_visible'
       /\ (last'.op = "add_window" /\ last'.id \notin Registered) =>
             /\ preview_frames'[last'.id].visible
             /\ UNCHANGED thumbnails_visible
       /\ last'.op = "capture_cycle" =>
             Submitted(last'.submits)
                = {w \in Registered : preview_frames[w].visible}
       /\ (last.op = "toggle_thumbnails_visibility"
             /\ last'.op = "toggle_thumbnails_visibility") =>
             /\ thumbnails_visible' = last.before[1]
             /\ \A w \in Registered :
                   last.before[2][w] = last.before[1] =>
                      preview_frames'[w].visible = last.before[2][w]]_vars

\* A tick submitted a capture for a window while the thumbnails flag was
\* false and another window was hidden.
C39_Witness ==
    /\ last.op = "capture_cycle"
    /\ ~thumbnails_visible
    /\ \E i \in 1..Len(last.submits) : last.submits[i].request_id # NoImage
    /\ \E w \in Registered : ~preview_frames[w].visible

=============================================================================
